---- MODULE Spec2Model ----
(***************************************************************************)
(* State-machine model of the Circle Gateway programs for Solana:          *)
(*   gateway-wallet (deposit / withdraw / delegate / gateway_burn) and     *)
(*   gateway-minter (gateway_mint), with the shared replay registry.       *)
(*                                                                         *)
(* One action per instruction handler.  A handler is modelled by a         *)
(* "...Result" operator that walks the handler's checks in source order    *)
(* and returns the error (or "Ok") together with the account data as the   *)
(* handler left it, partial writes included; the instruction's Result      *)
(* decides whether those writes survive (Committed).                       *)
(***************************************************************************)
EXTENDS Integers, Sequences, FiniteSets, TLC

\* ------------------------------------------------------------------ bounds
MaxSlot == 2            \* the clock stops advancing here
InitialFunds == 2       \* tokens of T1 depositor A starts with
MaxAmount == 2          \* largest amount / value named by a call
WithdrawalDelay == 1    \* InitializeParams.withdrawal_delay
MinterFunds == 2        \* tokens of T1 in the minter custody at start
MaxElements == 2        \* most elements of an encoded attestation set
MaxHookData == 1        \* most bytes of hook data of an element
MaxNextCalls == 4       \* most next() calls on one MintAttestation

\* ------------------------------------------------------- program constants
MAX_SUPPORTED_TOKENS == 10
MAX_BURN_SIGNERS == 10
MAX_ATTESTERS == 10
WALLET_VERSION == 1
MINTER_VERSION == 1
BURN_SIGNATURE_LENGTH == 65
ATTESTATION_SIGNATURE_LENGTH == 65
SIGNATURE_LENGTH == 65
TRANSFER_SPEC_MAGIC == "0xca85def7"
BURN_INTENT_MAGIC == "0x070afbc2"
ATTESTATION_SET_MAGIC == "0x10cbb1ec"
TS_HOOK_DATA_OFFSET == 500
TRANSFER_SPEC_OFFSET == 160
BURN_INTENT_MESSAGE_PREFIX_OFFSET == 72
BURN_DATA_USER_SIGNATURE_OFFSET == 8
TS_SOURCE_SIGNER_OFFSET == 368
DISCRIMINATOR_SIZE == 2
BURN_DATA_OFFSET == DISCRIMINATOR_SIZE + 4
ED25519_NUM_SIGNATURES == 1
ED25519_PADDING == 0
ED25519_HEADER_SIZE == 16
U16_MAX == 65535
ATTESTATION_SET_ATTESTATIONS_OFFSET == 88
HOOK_DATA_OFFSET == 108

\* --------------------------------------------------------------- identities
DefaultPubkey == "Default"              \* Pubkey::default(), all zero bytes
Admin == "Admin"                        \* the upgrade authority at initialize
WalletProgram == "gateway_wallet_program"
MinterProgram == "gateway_minter_program"
Ed25519Program == "ed25519_program"
WalletPDA == "gateway_wallet"           \* PDA [GATEWAY_WALLET_SEED]
MinterPDA == "gateway_minter"           \* PDA [GATEWAY_MINTER_SEED]
LocalDomain == 5                        \* InitializeParams.local_domain
Users == {"A", "B"}
Keys == Users \cup {"G"}
Tokens == {"T1", "T2"}
Owners == Keys \cup {Admin, WalletPDA, MinterPDA}
BurnSignerKey == "S1"                   \* an enrolled burn signer
AttesterKey == "At1"                    \* an enrolled attester
StrangerKey == "X9"                     \* a key enrolled nowhere

Min(a, b) == IF a <= b THEN a ELSE b

Contains(s, e) == \E i \in 1..Len(s) : s[i] = e

VARIABLES
    slot,            \* Clock::get()?.slot
    gateway_wallet,  \* the GatewayWallet account
    gateway_minter,  \* the GatewayMinter account
    deposits,        \* GatewayDeposit accounts, by PDA seeds <<token, depositor>>
    delegates,       \* GatewayDelegate accounts, by PDA seeds <<token, depositor, delegate>>
    denylisted,      \* keys whose Denylist PDA exists
    usedW,           \* UsedTransferSpecHash PDAs of the wallet program
    usedM,           \* UsedTransferSpecHash PDAs of the minter program
    tok,             \* SPL token account balances, by <<owner, mint>>
    last             \* the last instruction processed: inputs, result, events

vars == <<slot, gateway_wallet, gateway_minter, deposits, delegates,
          denylisted, usedW, usedM, tok, last>>

\* The account data every instruction can change (everything but the clock
\* and the record of the last call).
chain == <<gateway_wallet, gateway_minter, deposits, delegates, denylisted,
           usedW, usedM, tok>>

DepositKeys == Tokens \X Keys
DelegateKeys == Tokens \X Users \X Keys
TokenAccounts == Owners \X Tokens

\* Account data before the account is created (all zero).
NoDeposit ==
    [initialized |-> FALSE, depositor |-> DefaultPubkey, token_mint |-> DefaultPubkey,
     available_amount |-> 0, withdrawing_amount |-> 0, withdrawal_block |-> 0]

NoDelegate ==
    [initialized |-> FALSE, status |-> "Unauthorized", closeable_at_block |-> 0,
     token |-> DefaultPubkey, depositor |-> DefaultPubkey, delegate |-> DefaultPubkey]

\* ------------------------------------------------------------------- runtime
\* Variant: the writes of a failing instruction survive.
CommittedPartial(err, before, after) == after

\* An instruction that returns Err aborts the transaction and the runtime
\* discards every account write it made; Ok keeps them.
Committed(err, before, after) == IF err = "Ok" THEN after ELSE before

\* SPL token transfer CPI: fails when the source holds less than amount.
TokenTransferOk(tk, from, amount) == tk[from] >= amount

TokenTransfer(tk, from, to, amount) ==
    IF from = to THEN tk
    ELSE [tk EXCEPT ![from] = @ - amount, ![to] = @ + amount]

\* SPL token burn CPI: removes amount from the account (and the supply).
TokenBurn(tk, from, amount) == [tk EXCEPT ![from] = @ - amount]

\* ------------------------------------------------------- GatewayWallet state
is_token_supported(gw, token_mint) == Contains(gw.supported_tokens, token_mint)

is_burn_signer(gw, signer) == Contains(gw.burn_signers, signer)

\* Variant: nobody counts as denylisted.
is_account_denylisted_never(key) == FALSE

is_account_denylisted(key) == key \in denylisted

\* GatewayDeposit::initialize_if_needed (the account is zeroed by init_if_needed)
initialize_if_needed(d, depositor, token_mint) ==
    IF ~d.initialized
    THEN [d EXCEPT !.initialized = TRUE, !.depositor = depositor, !.token_mint = token_mint]
    ELSE d

\* Variant: a deposit of 0 is accepted.
deposit_any_amount(d, tk, from, to, amount) ==
    IF ~TokenTransferOk(tk, from, amount)
    THEN [err |-> "TokenInsufficientFunds", deposit |-> d, tok |-> tk]
    ELSE [err |-> "Ok",
          deposit |-> [d EXCEPT !.available_amount = @ + amount],
          tok |-> TokenTransfer(tk, from, to, amount)]

\* GatewayDeposit::deposit: [err, deposit, tok]
deposit(d, tk, from, to, amount) ==
    IF ~(amount > 0) THEN [err |-> "InvalidDepositAmount", deposit |-> d, tok |-> tk]
    ELSE IF ~TokenTransferOk(tk, from, amount)
    THEN [err |-> "TokenInsufficientFunds", deposit |-> d, tok |-> tk]
    ELSE [err |-> "Ok",
          deposit |-> [d EXCEPT !.available_amount = @ + amount],
          tok |-> TokenTransfer(tk, from, to, amount)]

\* Variant: the amount is not compared with the available balance.
initiate_withdrawal_unbounded(d, amount, withdrawal_delay, gw, token_mint) ==
    IF ~(amount > 0) THEN [err |-> "InvalidWithdrawalAmount", deposit |-> d]
    ELSE IF ~is_token_supported(gw, token_mint)
    THEN [err |-> "TokenNotSupported", deposit |-> d]
    ELSE [err |-> "Ok",
          deposit |-> [d EXCEPT !.available_amount = @ - amount,
                                !.withdrawing_amount = @ + amount,
                                !.withdrawal_block = slot + withdrawal_delay]]

\* Variant: a pending withdrawal keeps the block height it already has.
initiate_withdrawal_keep_timer(d, amount, withdrawal_delay, gw, token_mint) ==
    IF ~(amount > 0) THEN [err |-> "InvalidWithdrawalAmount", deposit |-> d]
    ELSE IF ~is_token_supported(gw, token_mint)
    THEN [err |-> "TokenNotSupported", deposit |-> d]
    ELSE IF ~(amount <= d.available_amount)
    THEN [err |-> "InsufficientDepositBalance", deposit |-> d]
    ELSE [err |-> "Ok",
          deposit |-> [d EXCEPT !.available_amount = @ - amount,
                                !.withdrawing_amount = @ + amount,
                                !.withdrawal_block =
                                    IF d.withdrawing_amount > 0 THEN @
                                    ELSE slot + withdrawal_delay]]

\* GatewayDeposit::initiate_withdrawal: [err, deposit]
initiate_withdrawal(d, amount, withdrawal_delay, gw, token_mint) ==
    IF ~(amount > 0) THEN [err |-> "InvalidWithdrawalAmount", deposit |-> d]
    ELSE IF ~is_token_supported(gw, token_mint)
    THEN [err |-> "TokenNotSupported", deposit |-> d]
    ELSE IF ~(amount <= d.available_amount)
    THEN [err |-> "InsufficientDepositBalance", deposit |-> d]
    ELSE [err |-> "Ok",
          deposit |-> [d EXCEPT !.available_amount = @ - amount,
                                !.withdrawing_amount = @ + amount,
                                !.withdrawal_block = slot + withdrawal_delay]]

\* Variant: ready only strictly after the withdrawal block.
withdrawal_ready_late(d) == slot > d.withdrawal_block

\* withdraw: require_gte!(current_slot, deposit.withdrawal_block)
withdrawal_ready(d) == slot >= d.withdrawal_block

\* Variant: completing a withdrawal leaves the block height in place.
complete_withdrawal_keep_block(d, tk, from, to) ==
    LET withdrawal_amount == d.withdrawing_amount
        d2 == [d EXCEPT !.withdrawing_amount = 0]
    IN  IF ~TokenTransferOk(tk, from, withdrawal_amount)
        THEN [err |-> "TokenInsufficientFunds", deposit |-> d2, tok |-> tk,
              amount |-> withdrawal_amount]
        ELSE [err |-> "Ok", deposit |-> d2,
              tok |-> TokenTransfer(tk, from, to, withdrawal_amount),
              amount |-> withdrawal_amount]

\* Variant: completing a withdrawal leaves the withdrawing amount in place.
complete_withdrawal_keep_amount(d, tk, from, to) ==
    LET withdrawal_amount == d.withdrawing_amount
        d2 == [d EXCEPT !.withdrawal_block = 0]
    IN  IF ~TokenTransferOk(tk, from, withdrawal_amount)
        THEN [err |-> "TokenInsufficientFunds", deposit |-> d2, tok |-> tk,
              amount |-> withdrawal_amount]
        ELSE [err |-> "Ok", deposit |-> d2,
              tok |-> TokenTransfer(tk, from, to, withdrawal_amount),
              amount |-> withdrawal_amount]

\* GatewayDeposit::complete_withdrawal: [err, deposit, tok, amount]
complete_withdrawal(d, tk, from, to) ==
    LET withdrawal_amount == d.withdrawing_amount
        d2 == [d EXCEPT !.withdrawing_amount = 0, !.withdrawal_block = 0]
    IN  IF ~TokenTransferOk(tk, from, withdrawal_amount)
        THEN [err |-> "TokenInsufficientFunds", deposit |-> d2, tok |-> tk,
              amount |-> withdrawal_amount]
        ELSE [err |-> "Ok", deposit |-> d2,
              tok |-> TokenTransfer(tk, from, to, withdrawal_amount),
              amount |-> withdrawal_amount]

\* Variant: one unit is left over even when nothing exceeds b.
saturating_sub_floor_one(a, b) == IF a > b THEN a - b ELSE Min(a, 1)

\* u64::saturating_sub
saturating_sub(a, b) == IF a > b THEN a - b ELSE 0

\* Variant: a shortfall is an error instead of a partial deduction.
reduce_balance_strict(d, value) ==
    IF ~(value > 0)
    THEN [err |-> "InvalidBalanceReductionAmount", deposit |-> d,
          from_available |-> 0, from_withdrawing |-> 0]
    ELSE IF d.available_amount + d.withdrawing_amount < value
    THEN [err |-> "InsufficientDepositBalance", deposit |-> d,
          from_available |-> 0, from_withdrawing |-> 0]
    ELSE LET fa == Min(value, d.available_amount)
         IN  [err |-> "Ok",
              deposit |-> [d EXCEPT !.available_amount = @ - fa,
                                    !.withdrawing_amount = @ - (value - fa)],
              from_available |-> fa, from_withdrawing |-> value - fa]

\* Variant: the withdrawing balance is consumed before the available one.
reduce_balance_withdrawing_first(d, value) ==
    IF ~(value > 0)
    THEN [err |-> "InvalidBalanceReductionAmount", deposit |-> d,
          from_available |-> 0, from_withdrawing |-> 0]
    ELSE LET fw == Min(value, d.withdrawing_amount)
             fa == Min(value - fw, d.available_amount)
         IN  [err |-> "Ok",
              deposit |-> [d EXCEPT !.available_amount = @ - fa,
                                    !.withdrawing_amount = @ - fw],
              from_available |-> fa, from_withdrawing |-> fw]

\* GatewayDeposit::reduce_balance: [err, deposit, from_available, from_withdrawing]
reduce_balance(d, value) ==
    IF ~(value > 0)
    THEN [err |-> "InvalidBalanceReductionAmount", deposit |-> d,
          from_available |-> 0, from_withdrawing |-> 0]
    ELSE LET available == d.available_amount
             needed == value
         IN  IF available >= needed
             THEN [err |-> "Ok",
                   deposit |-> [d EXCEPT !.available_amount = @ - needed],
                   from_available |-> needed, from_withdrawing |-> 0]
             ELSE LET d1 == [d EXCEPT !.available_amount = 0]
                      needed2 == needed - available
                      withdrawing == d1.withdrawing_amount
                  IN  IF withdrawing >= needed2
                      THEN [err |-> "Ok",
                            deposit |-> [d1 EXCEPT !.withdrawing_amount = @ - needed2],
                            from_available |-> available, from_withdrawing |-> needed2]
                      ELSE [err |-> "Ok",
                            deposit |-> [d1 EXCEPT !.withdrawing_amount = 0],
                            from_available |-> available, from_withdrawing |-> withdrawing]

\* ------------------------------------------------------------ initial state
\* The state after both programs were initialized by Admin and the token
\* controller / owner enrolled two tokens, one burn signer and one attester.
InitWallet ==
    [owner |-> Admin, pending_owner |-> DefaultPubkey, pauser |-> Admin,
     denylister |-> Admin, token_controller |-> Admin, fee_recipient |-> Admin,
     local_domain |-> LocalDomain, version |-> WALLET_VERSION,
     withdrawal_delay |-> WithdrawalDelay, paused |-> FALSE,
     supported_tokens |-> <<"T1", "T2">>, burn_signers |-> <<BurnSignerKey>>]

InitMinter ==
    [owner |-> Admin, pending_owner |-> DefaultPubkey, pauser |-> Admin,
     token_controller |-> Admin, paused |-> FALSE,
     enabled_attesters |-> <<AttesterKey>>, local_domain |-> LocalDomain,
     version |-> MINTER_VERSION, supported_tokens |-> <<"T1", "T2">>]

InitTok ==
    [a \in TokenAccounts |->
        IF a = <<"A", "T1">> THEN InitialFunds
        ELSE IF a = <<"B", "T1">> THEN 1
        ELSE IF a = <<MinterPDA, "T1">> THEN MinterFunds
        ELSE 0]

NoCall == [op |-> "none", err |-> "Ok", events |-> <<>>]

Init ==
    /\ slot = 0
    /\ gateway_wallet = InitWallet
    /\ gateway_minter = InitMinter
    /\ deposits = [k \in DepositKeys |-> NoDeposit]
    /\ delegates = [k \in DelegateKeys |-> NoDelegate]
    /\ denylisted = {}
    /\ usedW = {}
    /\ usedM = {}
    /\ tok = InitTok
    /\ last = NoCall

\* --------------------------------------------------------------------- clock
\* The slot is supplied by the cluster and only increases.
Tick ==
    /\ slot < MaxSlot
    /\ slot' = slot + 1
    /\ UNCHANGED <<chain, last>>

\* --------------------------------------------------------------- deposit_for
\* [err, deposits, tok, events]
DepositForResult(owner, token, amount, depositor) ==
    LET key == <<token, depositor>>
        fail(e, ds) == [err |-> e, deposits |-> ds, tok |-> tok, events |-> <<>>]
    IN  IF gateway_wallet.paused THEN fail("ProgramPaused", deposits)
        ELSE IF ~is_token_supported(gateway_wallet, token)
        THEN fail("TokenNotSupported", deposits)
        ELSE IF depositor = DefaultPubkey THEN fail("InvalidDepositor", deposits)
        ELSE IF is_account_denylisted(owner) THEN fail("AccountDenylisted", deposits)
        ELSE IF is_account_denylisted(depositor) THEN fail("AccountDenylisted", deposits)
        ELSE LET d1 == initialize_if_needed(deposits[key], depositor, token)
                 r == deposit(d1, tok, <<owner, token>>, <<WalletPDA, token>>, amount)
                 ds == [deposits EXCEPT ![key] = r.deposit]
             IN  IF r.err # "Ok"
                 THEN fail(r.err, [deposits EXCEPT ![key] = d1])
                 ELSE [err |-> "Ok", deposits |-> ds, tok |-> r.tok,
                       events |-> <<"Deposited">>]

DepositFor(owner, token, amount, depositor) ==
    LET r == DepositForResult(owner, token, amount, depositor) IN
    /\ deposits' = Committed(r.err, deposits, r.deposits)
    /\ tok' = Committed(r.err, tok, r.tok)
    /\ last' = [op |-> "deposit_for", err |-> r.err, events |-> r.events,
                signer |-> owner, token |-> token, amount |-> amount,
                depositor |-> depositor, before |-> deposits[<<token, depositor>>]]
    /\ UNCHANGED <<slot, gateway_wallet, gateway_minter, delegates, denylisted,
                   usedW, usedM>>

\* ------------------------------------------------------- initiate_withdrawal
\* [err, deposits, events]
InitiateWithdrawalResult(depositor, token, amount) ==
    LET key == <<token, depositor>>
        d == deposits[key]
    IN  IF ~d.initialized
        THEN [err |-> "AccountNotInitialized", deposits |-> deposits, events |-> <<>>]
        ELSE IF gateway_wallet.paused
        THEN [err |-> "ProgramPaused", deposits |-> deposits, events |-> <<>>]
        ELSE LET r == initiate_withdrawal(d, amount, gateway_wallet.withdrawal_delay,
                                          gateway_wallet, d.token_mint)
             IN  IF r.err # "Ok"
                 THEN [err |-> r.err, deposits |-> deposits, events |-> <<>>]
                 ELSE [err |-> "Ok", deposits |-> [deposits EXCEPT ![key] = r.deposit],
                       events |-> <<"WithdrawalInitiated">>]

InitiateWithdrawal(depositor, token, amount) ==
    LET r == InitiateWithdrawalResult(depositor, token, amount) IN
    /\ deposits' = Committed(r.err, deposits, r.deposits)
    /\ last' = [op |-> "initiate_withdrawal", err |-> r.err, events |-> r.events,
                signer |-> depositor, token |-> token, amount |-> amount,
                depositor |-> depositor, before |-> deposits[<<token, depositor>>]]
    /\ UNCHANGED <<slot, gateway_wallet, gateway_minter, delegates, denylisted,
                   usedW, usedM, tok>>

\* Variant: withdraw does not look at the paused flag.
WithdrawResultWhilePaused(depositor, token) ==
    LET key == <<token, depositor>>
        d == deposits[key]
        fail(e, ds) == [err |-> e, deposits |-> ds, tok |-> tok, events |-> <<>>]
    IN  IF ~d.initialized THEN fail("AccountNotInitialized", deposits)
        ELSE IF ~is_token_supported(gateway_wallet, token)
        THEN fail("TokenNotSupported", deposits)
        ELSE IF ~(d.withdrawing_amount > 0) THEN fail("NoWithdrawalInProgress", deposits)
        ELSE IF ~withdrawal_ready(d) THEN fail("WithdrawalDelayNotElapsed", deposits)
        ELSE LET r == complete_withdrawal(d, tok, <<WalletPDA, token>>,
                                          <<depositor, token>>)
                 ds == [deposits EXCEPT ![key] = r.deposit]
             IN  IF r.err # "Ok" THEN fail(r.err, ds)
                 ELSE [err |-> "Ok", deposits |-> ds, tok |-> r.tok,
                       events |-> <<"WithdrawalCompleted">>]

\* ------------------------------------------------------------------ withdraw
\* [err, deposits, tok, events]
WithdrawResult(depositor, token) ==
    LET key == <<token, depositor>>
        d == deposits[key]
        fail(e, ds) == [err |-> e, deposits |-> ds, tok |-> tok, events |-> <<>>]
    IN  IF ~d.initialized THEN fail("AccountNotInitialized", deposits)
        ELSE IF gateway_wallet.paused THEN fail("ProgramPaused", deposits)
        ELSE IF ~is_token_supported(gateway_wallet, token)
        THEN fail("TokenNotSupported", deposits)
        ELSE IF ~(d.withdrawing_amount > 0) THEN fail("NoWithdrawalInProgress", deposits)
        ELSE IF ~withdrawal_ready(d) THEN fail("WithdrawalDelayNotElapsed", deposits)
        ELSE LET r == complete_withdrawal(d, tok, <<WalletPDA, token>>,
                                          <<depositor, token>>)
                 ds == [deposits EXCEPT ![key] = r.deposit]
             IN  IF r.err # "Ok" THEN fail(r.err, ds)
                 ELSE [err |-> "Ok", deposits |-> ds, tok |-> r.tok,
                       events |-> <<"WithdrawalCompleted">>]

Withdraw(depositor, token) ==
    LET r == WithdrawResult(depositor, token) IN
    /\ deposits' = Committed(r.err, deposits, r.deposits)
    /\ tok' = Committed(r.err, tok, r.tok)
    /\ last' = [op |-> "withdraw", err |-> r.err, events |-> r.events,
                signer |-> depositor, token |-> token,
                depositor |-> depositor, before |-> deposits[<<token, depositor>>]]
    /\ UNCHANGED <<slot, gateway_wallet, gateway_minter, delegates, denylisted,
                   usedW, usedM>>

\* -------------------------------------------------------------- add_delegate
\* [err, delegates, events]
AddDelegateResult(depositor, token, delegate) ==
    LET key == <<token, depositor, delegate>>
        fail(e) == [err |-> e, delegates |-> delegates, events |-> <<>>]
    IN  IF gateway_wallet.paused THEN fail("ProgramPaused")
        ELSE IF delegate = DefaultPubkey THEN fail("InvalidDelegate")
        ELSE IF delegate = depositor THEN fail("CannotDelegateToSelf")
        ELSE IF is_account_denylisted(depositor) THEN fail("AccountDenylisted")
        ELSE IF is_account_denylisted(delegate) THEN fail("AccountDenylisted")
        ELSE IF ~is_token_supported(gateway_wallet, token) THEN fail("TokenNotSupported")
        ELSE [err |-> "Ok",
              delegates |-> [delegates EXCEPT ![key] =
                  [initialized |-> TRUE, status |-> "Authorized",
                   closeable_at_block |-> 0, token |-> token,
                   depositor |-> depositor, delegate |-> delegate]],
              events |-> <<"DelegateAdded">>]

AddDelegate(depositor, token, delegate) ==
    LET r == AddDelegateResult(depositor, token, delegate) IN
    /\ delegates' = Committed(r.err, delegates, r.delegates)
    /\ last' = [op |-> "add_delegate", err |-> r.err, events |-> r.events,
                signer |-> depositor, token |-> token,
                depositor |-> depositor, delegate |-> delegate,
                status_before |-> delegates[<<token, depositor, delegate>>].status]
    /\ UNCHANGED <<slot, gateway_wallet, gateway_minter, deposits, denylisted,
                   usedW, usedM, tok>>

\* ----------------------------------------------------------- remove_delegate
\* Variant: removal resets the record to Unauthorized.
RemoveDelegateResultReset(depositor, token, delegate) ==
    LET key == <<token, depositor, delegate>>
        fail(e) == [err |-> e, delegates |-> delegates, events |-> <<>>]
    IN  IF ~delegates[key].initialized THEN fail("AccountNotInitialized")
        ELSE IF gateway_wallet.paused THEN fail("ProgramPaused")
        ELSE IF delegate = DefaultPubkey THEN fail("InvalidDelegate")
        ELSE IF is_account_denylisted(depositor) THEN fail("AccountDenylisted")
        ELSE IF ~is_token_supported(gateway_wallet, token) THEN fail("TokenNotSupported")
        ELSE IF delegates[key].status = "Unauthorized"
        THEN [err |-> "Ok", delegates |-> delegates, events |-> <<>>]
        ELSE [err |-> "Ok",
              delegates |-> [delegates EXCEPT ![key].status = "Unauthorized"],
              events |-> <<"DelegateRemoved">>]

\* [err, delegates, events]
RemoveDelegateResult(depositor, token, delegate) ==
    LET key == <<token, depositor, delegate>>
        fail(e) == [err |-> e, delegates |-> delegates, events |-> <<>>]
    IN  IF ~delegates[key].initialized THEN fail("AccountNotInitialized")
        ELSE IF gateway_wallet.paused THEN fail("ProgramPaused")
        ELSE IF delegate = DefaultPubkey THEN fail("InvalidDelegate")
        ELSE IF is_account_denylisted(depositor) THEN fail("AccountDenylisted")
        ELSE IF ~is_token_supported(gateway_wallet, token) THEN fail("TokenNotSupported")
        ELSE IF delegates[key].status = "Unauthorized" \/ delegates[key].status = "Revoked"
        THEN [err |-> "Ok", delegates |-> delegates, events |-> <<>>]
        ELSE [err |-> "Ok",
              delegates |-> [delegates EXCEPT ![key].status = "Revoked"],
              events |-> <<"DelegateRemoved">>]

RemoveDelegate(depositor, token, delegate) ==
    LET r == RemoveDelegateResult(depositor, token, delegate) IN
    /\ delegates' = Committed(r.err, delegates, r.delegates)
    /\ last' = [op |-> "remove_delegate", err |-> r.err, events |-> r.events,
                signer |-> depositor, token |-> token,
                depositor |-> depositor, delegate |-> delegate,
                status_before |-> delegates[<<token, depositor, delegate>>].status]
    /\ UNCHANGED <<slot, gateway_wallet, gateway_minter, deposits, denylisted,
                   usedW, usedM, tok>>

\* Variant: a high s value is not rejected.
recover_evm_signer_any_s(hash_len, signature) ==
    IF hash_len # 32 THEN [err |-> "InvalidMessageHash", signer |-> DefaultPubkey]
    ELSE IF signature.len # SIGNATURE_LENGTH
    THEN [err |-> "InvalidSignatureLength", signer |-> DefaultPubkey]
    ELSE IF signature.recovery_id # 27 /\ signature.recovery_id # 28
    THEN [err |-> "InvalidRecoveryId", signer |-> DefaultPubkey]
    ELSE IF ~signature.parses THEN [err |-> "InvalidSignature", signer |-> DefaultPubkey]
    ELSE IF ~signature.recovers THEN [err |-> "InvalidSignature", signer |-> DefaultPubkey]
    ELSE [err |-> "Ok",
          signer |-> IF signature.signed_this THEN signature.signer ELSE StrangerKey]

\* ------------------------------------------------------- signature recovery
\* A signature is modelled by what recovery sees of it: its length, its
\* recovery byte, whether s is in the high half, whether (r, s) parse and
\* recover at all, and the identity that signed.  signed_this says whether
\* that identity signed the digest being verified; recovering against any
\* other digest yields an unrelated identity.
\* recover_evm_signer: [err, signer]
recover_evm_signer(hash_len, signature) ==
    IF hash_len # 32 THEN [err |-> "InvalidMessageHash", signer |-> DefaultPubkey]
    ELSE IF signature.len # SIGNATURE_LENGTH
    THEN [err |-> "InvalidSignatureLength", signer |-> DefaultPubkey]
    ELSE IF signature.recovery_id # 27 /\ signature.recovery_id # 28
    THEN [err |-> "InvalidRecoveryId", signer |-> DefaultPubkey]
    ELSE IF ~signature.parses THEN [err |-> "InvalidSignature", signer |-> DefaultPubkey]
    ELSE IF signature.high_s THEN [err |-> "InvalidSignatureSValue", signer |-> DefaultPubkey]
    ELSE IF ~signature.recovers THEN [err |-> "InvalidSignature", signer |-> DefaultPubkey]
    ELSE [err |-> "Ok",
          signer |-> IF signature.signed_this THEN signature.signer ELSE StrangerKey]

\* Variant: an unenrolled signer is reported like a malformed signature.
verify_burn_signature_one_error(gw, signature) ==
    IF signature.len # BURN_SIGNATURE_LENGTH THEN "InvalidBurnSignerSignature"
    ELSE LET r == recover_evm_signer(32, signature)
         IN  IF r.err # "Ok" THEN "InvalidBurnSignerSignature"
             ELSE IF ~is_burn_signer(gw, r.signer) THEN "InvalidBurnSignerSignature"
             ELSE "Ok"

\* GatewayWallet::verify_burn_signature: the error, or "Ok"
verify_burn_signature(gw, signature) ==
    IF signature.len # BURN_SIGNATURE_LENGTH THEN "InvalidBurnSignerSignature"
    ELSE LET r == recover_evm_signer(32, signature)
         IN  IF r.err # "Ok" THEN "InvalidBurnSignerSignature"
             ELSE IF ~is_burn_signer(gw, r.signer) THEN "BurnSignerNotAuthorized"
             ELSE "Ok"

\* Variant: the top 24 bytes are dropped and the low 8 bytes returned.
read_u64_with_data_offset_truncating(hi, lo) == [err |-> "Ok", value |-> lo]

\* ------------------------------------------------------------------ BurnData
\* The encoded burn data is modelled field by field: every numeric field that
\* is 32 bytes wide on the wire is a pair (top 24 bytes, low 8 bytes), len is
\* the length of the buffer and the hook data is len - 500 filler bytes.
\* read_u64_with_data_offset: [err, value]
read_u64_with_data_offset(hi, lo) ==
    IF hi # 0 THEN [err |-> "InvalidU64HighBytes", value |-> 0]
    ELSE [err |-> "Ok", value |-> lo]

BURN_INTENT_MESSAGE_PREFIX == "ff000000000000000000000000000000"

\* Variant: transfer_spec_length is not compared with the hook data length.
BurnDataNewAnySpecLength(m) ==
    IF ~(m.len >= TS_HOOK_DATA_OFFSET) THEN "BurnIntentLengthMismatch"
    ELSE IF m.prefix # BURN_INTENT_MESSAGE_PREFIX THEN "InvalidBurnIntentMessagePrefix"
    ELSE IF m.magic # BURN_INTENT_MAGIC THEN "BurnIntentMagicMismatch"
    ELSE IF m.ts_magic # TRANSFER_SPEC_MAGIC THEN "TransferSpecMagicMismatch"
    ELSE IF m.len # TS_HOOK_DATA_OFFSET + m.hook_data_length THEN "BurnIntentLengthMismatch"
    ELSE IF read_u64_with_data_offset(m.value_hi, m.value).err # "Ok"
    THEN read_u64_with_data_offset(m.value_hi, m.value).err
    ELSE IF ~(m.value > 0) THEN "InvalidBurnIntentValue"
    ELSE "Ok"

\* BurnData::new: the error, or "Ok"
BurnDataNew(m) ==
    IF ~(m.len >= TS_HOOK_DATA_OFFSET) THEN "BurnIntentLengthMismatch"
    ELSE IF m.prefix # BURN_INTENT_MESSAGE_PREFIX THEN "InvalidBurnIntentMessagePrefix"
    ELSE IF m.magic # BURN_INTENT_MAGIC THEN "BurnIntentMagicMismatch"
    ELSE IF m.ts_magic # TRANSFER_SPEC_MAGIC THEN "TransferSpecMagicMismatch"
    ELSE IF m.len # TS_HOOK_DATA_OFFSET + m.hook_data_length THEN "BurnIntentLengthMismatch"
    ELSE IF (TS_HOOK_DATA_OFFSET - TRANSFER_SPEC_OFFSET) + m.hook_data_length
                # m.transfer_spec_length
    THEN "BurnIntentLengthMismatch"
    ELSE IF read_u64_with_data_offset(m.value_hi, m.value).err # "Ok"
    THEN read_u64_with_data_offset(m.value_hi, m.value).err
    ELSE IF ~(m.value > 0) THEN "InvalidBurnIntentValue"
    ELSE "Ok"

\* BurnData::burn_intent_message_length
burn_intent_message_length(m) == m.len - BURN_INTENT_MESSAGE_PREFIX_OFFSET

\* BurnData::transfer_spec_hash: keccak of the encoded transfer spec, modelled
\* as the (collision-free) tuple of the bytes it covers.  fee, max_fee and
\* max_block_height lie outside the transfer spec.
transfer_spec_hash(m) ==
    <<m.version, m.source_domain, m.destination_domain, m.source_contract,
      m.destination_contract, m.source_token, m.destination_token,
      m.source_depositor, m.destination_recipient, m.source_signer,
      m.destination_caller, m.value_hi, m.value, m.salt, m.hook_data_length>>

\* Variant: the instruction index of the message is not compared.
verify_user_signature_any_message_index(ix, message_length) ==
    IF ~(U16_MAX >= message_length) THEN "MalformedBurnData"
    ELSE IF ~(ix.current_index > 0) THEN "PreviousInstructionNotEd25519Program"
    ELSE IF ix.program_id # Ed25519Program THEN "PreviousInstructionNotEd25519Program"
    ELSE IF ix.data_len # ED25519_HEADER_SIZE THEN "InvalidEd25519InstructionData"
    ELSE IF /\ ix.num_signatures = ED25519_NUM_SIGNATURES
            /\ ix.padding = ED25519_PADDING
            /\ ix.signature_offset = BURN_DATA_OFFSET + BURN_DATA_USER_SIGNATURE_OFFSET
            /\ ix.signature_instruction_index = ix.current_index
            /\ ix.public_key_offset = BURN_DATA_OFFSET + TS_SOURCE_SIGNER_OFFSET
            /\ ix.public_key_instruction_index = ix.current_index
            /\ ix.message_data_offset
                  = BURN_DATA_OFFSET + BURN_INTENT_MESSAGE_PREFIX_OFFSET
            /\ ix.message_data_size = message_length
    THEN "Ok" ELSE "InvalidEd25519InstructionData"

\* Variant: the program of the previous instruction is not compared.
verify_user_signature_any_program(ix, message_length) ==
    IF ~(U16_MAX >= message_length) THEN "MalformedBurnData"
    ELSE IF ~(ix.current_index > 0) THEN "PreviousInstructionNotEd25519Program"
    ELSE IF ix.data_len # ED25519_HEADER_SIZE THEN "InvalidEd25519InstructionData"
    ELSE IF /\ ix.num_signatures = ED25519_NUM_SIGNATURES
            /\ ix.padding = ED25519_PADDING
            /\ ix.signature_offset = BURN_DATA_OFFSET + BURN_DATA_USER_SIGNATURE_OFFSET
            /\ ix.signature_instruction_index = ix.current_index
            /\ ix.public_key_offset = BURN_DATA_OFFSET + TS_SOURCE_SIGNER_OFFSET
            /\ ix.public_key_instruction_index = ix.current_index
            /\ ix.message_data_offset
                  = BURN_DATA_OFFSET + BURN_INTENT_MESSAGE_PREFIX_OFFSET
            /\ ix.message_data_size = message_length
            /\ ix.message_instruction_index = ix.current_index
    THEN "Ok" ELSE "InvalidEd25519InstructionData"

\* ----------------------------------------------------- verify_user_signature
\* ix: the index of the gateway_burn instruction in the transaction and the
\* instruction right before it (program id, data length, header fields).
verify_user_signature(ix, message_length) ==
    IF ~(U16_MAX >= message_length) THEN "MalformedBurnData"
    ELSE IF ~(ix.current_index > 0) THEN "PreviousInstructionNotEd25519Program"
    ELSE IF ix.program_id # Ed25519Program THEN "PreviousInstructionNotEd25519Program"
    ELSE IF ix.data_len # ED25519_HEADER_SIZE THEN "InvalidEd25519InstructionData"
    ELSE LET signature_offset == BURN_DATA_OFFSET + BURN_DATA_USER_SIGNATURE_OFFSET
             source_signer_offset == BURN_DATA_OFFSET + TS_SOURCE_SIGNER_OFFSET
             burn_intent_message_offset ==
                 BURN_DATA_OFFSET + BURN_INTENT_MESSAGE_PREFIX_OFFSET
             valid_signature ==
                 /\ ix.num_signatures = ED25519_NUM_SIGNATURES
                 /\ ix.padding = ED25519_PADDING
                 /\ ix.signature_offset = signature_offset
                 /\ ix.signature_instruction_index = ix.current_index
                 /\ ix.public_key_offset = source_signer_offset
                 /\ ix.public_key_instruction_index = ix.current_index
                 /\ ix.message_data_offset = burn_intent_message_offset
                 /\ ix.message_data_size = message_length
                 /\ ix.message_instruction_index = ix.current_index
         IN  IF ~valid_signature THEN "InvalidEd25519InstructionData" ELSE "Ok"

\* ----------------------------------------------------- delegate authorization
\* Variant: only a currently Authorized delegate counts.
was_ever_authorized_for_balance_strict(acct, depositor, addr) ==
    IF addr = depositor THEN TRUE
    ELSE acct.status = "Authorized"

\* GatewayDelegate::was_ever_authorized_for_balance
was_ever_authorized_for_balance(acct, depositor, addr) ==
    IF addr = depositor THEN TRUE
    ELSE acct.status # "Unauthorized"

\* Variant: the record's depositor is not compared with the burn's.
validate_signer_authorization_lax(source_signer, source_depositor, delegate_account) ==
    IF source_signer = source_depositor THEN "Ok"
    ELSE IF ~delegate_account.present THEN "InvalidDelegateAccount"
    ELSE LET acct == delegates[delegate_account.key]
         IN  IF acct.delegate # source_signer THEN "DelegateSignerMismatch"
             ELSE IF ~was_ever_authorized_for_balance(acct, source_depositor, source_signer)
             THEN "DelegateSignerNotAuthorized"
             ELSE "Ok"

\* utils::validate_signer_authorization; delegate_account is
\* [present, key]: the optional GatewayDelegate account handed to the call.
validate_signer_authorization(source_signer, source_depositor, delegate_account) ==
    IF source_signer = source_depositor THEN "Ok"
    ELSE IF ~delegate_account.present THEN "InvalidDelegateAccount"
    ELSE LET acct == delegates[delegate_account.key]
         IN  IF acct.depositor # source_depositor THEN "DelegateDepositorMismatch"
             ELSE IF acct.delegate # source_signer THEN "DelegateSignerMismatch"
             ELSE IF ~was_ever_authorized_for_balance(acct, source_depositor, source_signer)
             THEN "DelegateSignerNotAuthorized"
             ELSE "Ok"

\* ----------------------------------------------------------- replay registry
\* Variant: no hash is ever reported as used.
is_transfer_spec_hash_used_never(used, h) == FALSE

\* shared::is_transfer_spec_hash_used: the PDA holds the discriminator
is_transfer_spec_hash_used(used, h) == h \in used

\* Variant: recording a hash drops the ones recorded before.
create_used_transfer_spec_hash_account_reset(used, h) == {h}

\* shared::create_used_transfer_spec_hash_account: writes the discriminator
create_used_transfer_spec_hash_account(used, h) == used \cup {h}

\* Variant: the intent's source token is not compared with the token mint.
SourceBindingsNoToken(m, gw, token_mint, d) ==
    IF m.source_domain # gw.local_domain THEN "SourceDomainMismatch"
    ELSE IF m.source_contract # WalletProgram THEN "SourceContractMismatch"
    ELSE IF m.source_depositor # d.depositor THEN "SourceDepositorMismatch"
    ELSE "Ok"

\* gateway_burn: the source domain, contract, token and depositor of the
\* intent against the wallet, this program, the token mint and the deposit.
SourceBindings(m, gw, token_mint, d) ==
    IF m.source_domain # gw.local_domain THEN "SourceDomainMismatch"
    ELSE IF m.source_contract # WalletProgram THEN "SourceContractMismatch"
    ELSE IF m.source_token # token_mint THEN "SourceTokenMismatch"
    ELSE IF m.source_depositor # d.depositor THEN "SourceDepositorMismatch"
    ELSE "Ok"

\* Variant: an intent is still taken one slot after its max_block_height.
BurnIntentNotExpiredLate(max_block_height) == max_block_height + 1 >= slot

\* gateway_burn: require_gte!(max_block_height, Clock::get()?.slot)
BurnIntentNotExpired(max_block_height) == max_block_height >= slot

\* -------------------------------------------------------------- gateway_burn
\* ctx: [token_mint, deposit, delegate_account, remaining_accounts, ix] where
\* deposit is the address (PDA seeds) of the GatewayDeposit account, and
\* remaining_accounts lists UsedTransferSpecHash PDAs by the hash they derive
\* from.  params: [encoded_burn_data, burn_signature].
\* [err, deposits, usedW, tok, events, from_available, from_withdrawing,
\*  fee_charged, burn_amount]
GatewayBurnResult(ctx, params) ==
    LET m == params.encoded_burn_data
        d == deposits[ctx.deposit]
        custody == <<WalletPDA, ctx.token_mint>>
        fee_account == <<gateway_wallet.fee_recipient, ctx.token_mint>>
        fail(e) == [err |-> e, deposits |-> deposits, usedW |-> usedW, tok |-> tok,
                    events |-> <<>>, from_available |-> 0, from_withdrawing |-> 0,
                    fee_charged |-> 0, burn_amount |-> 0]
        sig_err == verify_burn_signature(gateway_wallet, params.burn_signature)
        new_err == BurnDataNew(m)
        user_err == verify_user_signature(ctx.ix, burn_intent_message_length(m))
        max_block_height == read_u64_with_data_offset(m.max_block_height_hi,
                                                      m.max_block_height)
        source_err == SourceBindings(m, gateway_wallet, ctx.token_mint, d)
        auth_err == validate_signer_authorization(m.source_signer, m.source_depositor,
                                                  ctx.delegate_account)
        max_fee == read_u64_with_data_offset(m.max_fee_hi, m.max_fee)
        fee == m.fee
        value == m.value
        hash == transfer_spec_hash(m)
    IN  \* account constraints of GatewayBurnContext
        IF ~d.initialized THEN fail("AccountNotInitialized")
        ELSE IF ctx.delegate_account.present
                /\ ~delegates[ctx.delegate_account.key].initialized
        THEN fail("AccountNotInitialized")
        ELSE IF gateway_wallet.paused THEN fail("ProgramPaused")
        ELSE IF ~is_token_supported(gateway_wallet, ctx.token_mint)
        THEN fail("TokenNotSupported")
        ELSE IF ctx.deposit # <<ctx.token_mint, d.depositor>> THEN fail("ConstraintSeeds")
        ELSE IF ctx.delegate_account.present
                /\ ctx.delegate_account.key #
                     <<ctx.token_mint, delegates[ctx.delegate_account.key].depositor,
                       delegates[ctx.delegate_account.key].delegate>>
        THEN fail("ConstraintSeeds")
        \* handler body
        ELSE IF sig_err # "Ok" THEN fail(sig_err)
        ELSE IF new_err # "Ok" THEN fail(new_err)
        ELSE IF user_err # "Ok" THEN fail(user_err)
        ELSE IF m.version # gateway_wallet.version THEN fail("VersionMismatch")
        ELSE IF max_block_height.err # "Ok" THEN fail(max_block_height.err)
        ELSE IF ~BurnIntentNotExpired(max_block_height.value)
        THEN fail("BurnIntentExpired")
        ELSE IF source_err # "Ok" THEN fail(source_err)
        ELSE IF auth_err # "Ok" THEN fail(auth_err)
        ELSE IF max_fee.err # "Ok" THEN fail(max_fee.err)
        ELSE IF ~(max_fee.value >= fee) THEN fail("BurnFeeExceedsMaxFee")
        ELSE IF ~(tok[custody] >= value + fee) THEN fail("InsufficientCustodyBalance")
        ELSE IF Len(ctx.remaining_accounts) # 1
        THEN fail("RemainingAccountsLengthMismatch")
        ELSE IF ctx.remaining_accounts[1] # hash
        THEN fail("InvalidTransferSpecHashAccount")
        ELSE IF is_transfer_spec_hash_used(usedW, hash)
        THEN fail("TransferSpecHashAlreadyUsed")
        ELSE LET used1 == create_used_transfer_spec_hash_account(usedW, hash)
                 rb == reduce_balance(d, value + fee)
                 ds == [deposits EXCEPT ![ctx.deposit] = rb.deposit]
                 deducted_amount == rb.from_available + rb.from_withdrawing
                 ev1 == IF deducted_amount < value + fee
                        THEN <<"InsufficientBalance">> ELSE <<>>
                 actual_fee_charged == saturating_sub(deducted_amount, value)
                 burn_amount == deducted_amount - actual_fee_charged
                 tk1 == IF actual_fee_charged > 0
                        THEN TokenTransfer(tok, custody, fee_account, actual_fee_charged)
                        ELSE tok
                 partial(e, tk) ==
                     [err |-> e, deposits |-> ds, usedW |-> used1, tok |-> tk,
                      events |-> ev1, from_available |-> rb.from_available,
                      from_withdrawing |-> rb.from_withdrawing,
                      fee_charged |-> actual_fee_charged, burn_amount |-> burn_amount]
             IN  IF rb.err # "Ok"
                 THEN [fail(rb.err) EXCEPT !.usedW = used1]
                 ELSE IF actual_fee_charged > 0
                         /\ ~TokenTransferOk(tok, custody, actual_fee_charged)
                 THEN partial("TokenInsufficientFunds", tok)
                 ELSE IF ~TokenTransferOk(tk1, custody, burn_amount)
                 THEN partial("TokenInsufficientFunds", tk1)
                 ELSE [partial("Ok", TokenBurn(tk1, custody, burn_amount))
                          EXCEPT !.events = ev1 \o <<"GatewayBurned">>]

GatewayBurn(ctx, params) ==
    LET r == GatewayBurnResult(ctx, params) IN
    /\ deposits' = Committed(r.err, deposits, r.deposits)
    /\ usedW' = Committed(r.err, usedW, r.usedW)
    /\ tok' = Committed(r.err, tok, r.tok)
    /\ last' = [op |-> "gateway_burn", err |-> r.err, events |-> r.events,
                ctx |-> ctx, params |-> params,
                hash |-> transfer_spec_hash(params.encoded_burn_data),
                before |-> deposits[ctx.deposit],
                from_available |-> r.from_available,
                from_withdrawing |-> r.from_withdrawing,
                fee_charged |-> r.fee_charged, burn_amount |-> r.burn_amount]
    /\ UNCHANGED <<slot, gateway_wallet, gateway_minter, delegates, denylisted, usedM>>

\* ----------------------------------------------------------- MintAttestation
\* The attestation bytes are modelled by their layout: the header fields, the
\* elements laid out back to back (each 108 bytes plus its hook data) and
\* `trailing` bytes after the last element.  num_attestations is the header
\* field and need not equal the number of elements present.
RECURSIVE ElementStart(_, _)
ElementStart(att, i) ==
    IF i = 1 THEN ATTESTATION_SET_ATTESTATIONS_OFFSET
    ELSE ElementStart(att, i - 1) + HOOK_DATA_OFFSET
             + att.elements[i - 1].hook_data_length

AttestationLen(att) ==
    ElementStart(att, Len(att.elements) + 1) + att.trailing

\* The element whose first byte is at `offset`.
ElementAt(att, offset) ==
    att.elements[CHOOSE i \in 1..Len(att.elements) : ElementStart(att, i) = offset]

\* Variant: the attestation signature is not verified.
verify_attestation_signature_unchecked(gm, signature) == "Ok"

verify_attestation_signature(gm, signature) ==
    IF signature.len # ATTESTATION_SIGNATURE_LENGTH THEN "InvalidAttesterSignature"
    ELSE LET r == recover_evm_signer(32, signature)
         IN  IF r.err # "Ok" THEN "InvalidAttesterSignature"
             ELSE IF ~Contains(gm.enabled_attesters, r.signer)
             THEN "InvalidAttesterSignature"
             ELSE "Ok"

\* MintAttestation::new: [err, it] with the iterator it = [offset, index, num_elements]
MintAttestationNew(att) ==
    LET it0 == [offset |-> 0, index |-> 0, num_elements |-> 0] IN
    IF ~(AttestationLen(att) >= ATTESTATION_SET_ATTESTATIONS_OFFSET + HOOK_DATA_OFFSET)
    THEN [err |-> "AttestationTooShort", it |-> it0]
    ELSE IF att.magic # ATTESTATION_SET_MAGIC
    THEN [err |-> "AttestationMagicMismatch", it |-> it0]
    ELSE LET it1 == [offset |-> ATTESTATION_SET_ATTESTATIONS_OFFSET, index |-> 0,
                     num_elements |-> att.num_attestations]
         IN  IF ~(it1.num_elements > 0) THEN [err |-> "EmptyAttestationSet", it |-> it1]
             ELSE [err |-> "Ok", it |-> it1]

\* MintAttestation::next: [err, more, it]
MintAttestationNext(att, it) ==
    IF it.index >= it.num_elements THEN [err |-> "Ok", more |-> FALSE, it |-> it]
    ELSE LET offset1 ==
                 IF it.index > 0
                 THEN it.offset + HOOK_DATA_OFFSET
                          + ElementAt(att, it.offset).hook_data_length
                 ELSE it.offset
             it1 == [it EXCEPT !.offset = offset1, !.index = it.index + 1]
             remaining_length == AttestationLen(att) - offset1
         IN  IF ~(remaining_length >= HOOK_DATA_OFFSET)
             THEN [err |-> "AttestationTooShort", more |-> FALSE, it |-> it1]
             ELSE LET attestation_length ==
                          HOOK_DATA_OFFSET + ElementAt(att, offset1).hook_data_length
                  IN  IF ~(remaining_length >= attestation_length)
                      THEN [err |-> "AttestationTooShort", more |-> FALSE, it |-> it1]
                      ELSE IF it1.index = it1.num_elements
                              /\ offset1 + attestation_length # AttestationLen(att)
                      THEN [err |-> "AttestationTooLong", more |-> FALSE, it |-> it1]
                      ELSE [err |-> "Ok", more |-> TRUE, it |-> it1]

\* Variant: the authority of the custody account is not compared.
validate_custody_token_account_any_owner(acct, gm) ==
    IF ~Contains(gm.supported_tokens, acct[2]) THEN "TokenNotSupported" ELSE "Ok"

\* -------------------------------------------------------------- gateway_mint
\* gateway_mint::validate_custody_token_account on the token account at
\* address acct = <<owner, mint>>: the error, or "Ok"
validate_custody_token_account(acct, gm) ==
    IF acct[1] # MinterPDA THEN "InvalidCustodyTokenAccount"
    ELSE IF ~Contains(gm.supported_tokens, acct[2]) THEN "TokenNotSupported"
    ELSE "Ok"

\* Variant: the record of a hash is not written until the instruction ends.
process_used_transfer_spec_hash_deferred(h, hash_account, used) ==
    IF hash_account # h THEN [err |-> "InvalidTransferSpecHashAccount", used |-> used]
    ELSE IF is_transfer_spec_hash_used(used, h)
    THEN [err |-> "TransferSpecHashAlreadyUsed", used |-> used]
    ELSE [err |-> "Ok", used |-> used]

\* gateway_mint::process_used_transfer_spec_hash: [err, used]
process_used_transfer_spec_hash(h, hash_account, used) ==
    IF hash_account # h THEN [err |-> "InvalidTransferSpecHashAccount", used |-> used]
    ELSE IF is_transfer_spec_hash_used(used, h)
    THEN [err |-> "TransferSpecHashAlreadyUsed", used |-> used]
    ELSE [err |-> "Ok", used |-> create_used_transfer_spec_hash_account(used, h)]

\* The while-loop of gateway_mint from iterator state `it` on, with the hash
\* registry, token balances and events as the earlier iterations left them.
\* [err, usedM, tok, events, account_index]
RECURSIVE MintLoop(_, _, _, _, _, _, _)
MintLoop(ctx, att, it, account_index, used, tk, ev) ==
    LET n == MintAttestationNext(att, it)
        out(e) == [err |-> e, usedM |-> used, tok |-> tk, events |-> ev,
                   account_index |-> account_index]
    IN  IF n.err # "Ok" THEN out(n.err)
        ELSE IF ~n.more THEN out("Ok")
        ELSE LET el == ElementAt(att, n.it.offset)
                 accts == ctx.remaining_accounts[(account_index \div 3) + 1]
                 custody_err == validate_custody_token_account(accts.custody, gateway_minter)
                 ph == process_used_transfer_spec_hash(el.transfer_spec_hash,
                                                       accts.hash_account, used)
             IN  IF custody_err # "Ok" THEN out(custody_err)
                 ELSE IF ph.err # "Ok" THEN out(ph.err)
                 ELSE IF accts.custody[2] # el.destination_token
                 THEN [out("DestinationTokenMismatch") EXCEPT !.usedM = ph.used]
                 ELSE IF accts.recipient[2] # el.destination_token
                 THEN [out("DestinationTokenMismatch") EXCEPT !.usedM = ph.used]
                 ELSE IF accts.recipient # el.destination_recipient
                 THEN [out("DestinationRecipientMismatch") EXCEPT !.usedM = ph.used]
                 ELSE IF ~(el.value > 0)
                 THEN [out("InvalidAttestationValue") EXCEPT !.usedM = ph.used]
                 ELSE IF ~TokenTransferOk(tk, accts.custody, el.value)
                 THEN [out("TokenInsufficientFunds") EXCEPT !.usedM = ph.used]
                 ELSE MintLoop(ctx, att, n.it, account_index + 3, ph.used,
                               TokenTransfer(tk, accts.custody, accts.recipient, el.value),
                               Append(ev, "AttestationUsed"))

\* Variant: the signer is not compared with the attestation's caller.
DestinationCallerAllowedAny(attestation_destination_caller, signer) == TRUE

\* gateway_mint: a destination caller other than the zero address must be the
\* destination_caller signer of the transaction.
DestinationCallerAllowed(attestation_destination_caller, signer) ==
    attestation_destination_caller # DefaultPubkey
        => attestation_destination_caller = signer

\* gateway_mint: require_gte!(attestation.max_block_height()?, Clock::get()?.slot)
AttestationNotExpired(max_block_height) == max_block_height >= slot

\* ctx: [destination_caller, remaining_accounts] with one
\* [custody, recipient, hash_account] triple per element;
\* params: [attestation, signature].  [err, usedM, tok, events]
GatewayMintResult(ctx, params) ==
    LET att == params.attestation
        fail(e) == [err |-> e, usedM |-> usedM, tok |-> tok, events |-> <<>>]
        sig_err == verify_attestation_signature(gateway_minter, params.signature)
        new == MintAttestationNew(att)
    IN  IF gateway_minter.paused THEN fail("ProgramPaused")
        ELSE IF sig_err # "Ok" THEN fail(sig_err)
        ELSE IF new.err # "Ok" THEN fail(new.err)
        ELSE IF att.version # gateway_minter.version THEN fail("VersionMismatch")
        ELSE IF ~AttestationNotExpired(att.max_block_height)
        THEN fail("AttestationExpired")
        ELSE IF ~DestinationCallerAllowed(att.destination_caller, ctx.destination_caller)
        THEN fail("DestinationCallerMismatch")
        ELSE IF att.destination_domain # gateway_minter.local_domain
        THEN fail("DestinationDomainMismatch")
        ELSE IF att.destination_contract # MinterProgram
        THEN fail("DestinationContractMismatch")
        ELSE IF 3 * Len(ctx.remaining_accounts) # att.num_attestations * 3
        THEN fail("RemainingAccountsLengthMismatch")
        ELSE LET r == MintLoop(ctx, att, new.it, 0, usedM, tok, <<>>)
             IN  IF r.err # "Ok"
                 THEN [err |-> r.err, usedM |-> r.usedM, tok |-> r.tok,
                       events |-> r.events]
                 ELSE IF r.account_index # 3 * Len(ctx.remaining_accounts)
                 THEN [err |-> "RemainingAccountsLengthMismatch", usedM |-> r.usedM,
                       tok |-> r.tok, events |-> r.events]
                 ELSE [err |-> "Ok", usedM |-> r.usedM, tok |-> r.tok,
                       events |-> r.events]

GatewayMint(ctx, params) ==
    LET r == GatewayMintResult(ctx, params) IN
    /\ usedM' = Committed(r.err, usedM, r.usedM)
    /\ tok' = Committed(r.err, tok, r.tok)
    /\ last' = [op |-> "gateway_mint", err |-> r.err, events |-> r.events,
                mint_ctx |-> ctx, mint_params |-> params,
                partial_usedM |-> r.usedM, partial_tok |-> r.tok]
    /\ UNCHANGED <<slot, gateway_wallet, gateway_minter, deposits, delegates,
                   denylisted, usedW>>

\* --------------------------------------------------------- call input shapes
\* A well-formed burn intent for this wallet with no hook data.
BurnDataOf(depositor, signer, value, fee, max_fee, max_block_height, salt) ==
    [fee |-> fee, prefix |-> BURN_INTENT_MESSAGE_PREFIX, magic |-> BURN_INTENT_MAGIC,
     max_block_height_hi |-> 0, max_block_height |-> max_block_height,
     max_fee_hi |-> 0, max_fee |-> max_fee,
     transfer_spec_length |-> TS_HOOK_DATA_OFFSET - TRANSFER_SPEC_OFFSET,
     ts_magic |-> TRANSFER_SPEC_MAGIC, version |-> WALLET_VERSION,
     source_domain |-> LocalDomain, destination_domain |-> 0,
     source_contract |-> WalletProgram, destination_contract |-> "remote_minter",
     source_token |-> "T1", destination_token |-> "remote_token",
     source_depositor |-> depositor, destination_recipient |-> "remote_recipient",
     source_signer |-> signer, destination_caller |-> DefaultPubkey,
     value_hi |-> 0, value |-> value, salt |-> salt,
     hook_data_length |-> 0, len |-> TS_HOOK_DATA_OFFSET]

\* A well-formed, low-s signature by `signer` over the data it travels with.
SignatureBy(signer) ==
    [len |-> SIGNATURE_LENGTH, recovery_id |-> 27, parses |-> TRUE, high_s |-> FALSE,
     recovers |-> TRUE, signed_this |-> TRUE, signer |-> signer]

\* The Ed25519 instruction the documentation of gateway_burn asks for, placed
\* right before the gateway_burn instruction at index 1.
Ed25519For(m) ==
    [current_index |-> 1, program_id |-> Ed25519Program,
     data_len |-> ED25519_HEADER_SIZE,
     num_signatures |-> ED25519_NUM_SIGNATURES, padding |-> ED25519_PADDING,
     signature_offset |-> BURN_DATA_OFFSET + BURN_DATA_USER_SIGNATURE_OFFSET,
     signature_instruction_index |-> 1,
     public_key_offset |-> BURN_DATA_OFFSET + TS_SOURCE_SIGNER_OFFSET,
     public_key_instruction_index |-> 1,
     message_data_offset |-> BURN_DATA_OFFSET + BURN_INTENT_MESSAGE_PREFIX_OFFSET,
     message_data_size |-> burn_intent_message_length(m),
     message_instruction_index |-> 1]

NoDelegateAccount == [present |-> FALSE, key |-> <<DefaultPubkey, DefaultPubkey, DefaultPubkey>>]

SomeDelegateAccount(k) == [present |-> TRUE, key |-> k]

\* The accounts a client derives for burning m out of the deposit named by m.
BurnCtxOf(m, delegate_account) ==
    [token_mint |-> m.source_token, deposit |-> <<m.source_token, m.source_depositor>>,
     delegate_account |-> delegate_account,
     remaining_accounts |-> <<transfer_spec_hash(m)>>, ix |-> Ed25519For(m)]

BurnParamsOf(m, sig) == [encoded_burn_data |-> m, burn_signature |-> sig]

\* One attestation element paying `value` of T1 to recipient's token account.
ElementOf(recipient, value, h) ==
    [destination_token |-> "T1", destination_recipient |-> <<recipient, "T1">>,
     value |-> value, transfer_spec_hash |-> h, hook_data_length |-> 0]

\* A well-formed attestation set for this minter around the given elements.
AttestationOf(elements, max_block_height) ==
    [magic |-> ATTESTATION_SET_MAGIC, version |-> MINTER_VERSION,
     destination_domain |-> LocalDomain, destination_contract |-> MinterProgram,
     destination_caller |-> DefaultPubkey, max_block_height |-> max_block_height,
     num_attestations |-> Len(elements), elements |-> elements, trailing |-> 0]

\* The accounts a client derives for minting att.
MintCtxOf(att) ==
    [destination_caller |-> "A",
     remaining_accounts |->
        [i \in 1..Len(att.elements) |->
            [custody |-> <<MinterPDA, att.elements[i].destination_token>>,
             recipient |-> att.elements[i].destination_recipient,
             hash_account |-> att.elements[i].transfer_spec_hash]]]

MintParamsOf(att, sig) == [attestation |-> att, signature |-> sig]

MintInputOf(elements, max_block_height) ==
    LET att == AttestationOf(elements, max_block_height)
    IN  [ctx |-> MintCtxOf(att), params |-> MintParamsOf(att, SignatureBy(AttesterKey))]

\* A burn of value + fee out of depositor's T1 deposit, signed by signer and
\* countersigned by the enrolled burn signer.
BurnInputOf(depositor, signer, value, fee, max_block_height, delegate_account) ==
    LET m == BurnDataOf(depositor, signer, value, fee, 1, max_block_height, 1)
    IN  [ctx |-> BurnCtxOf(m, delegate_account),
         params |-> BurnParamsOf(m, SignatureBy(BurnSignerKey))]

\* ------------------------------------------------------------ specifications
\* The balance ledger: deposits, withdrawals and burns of two depositors.
LedgerBurns ==
    {BurnInputOf("A", "A", v, f, MaxSlot, NoDelegateAccount) :
        v \in 1..MaxAmount, f \in 0..1}
    \cup {BurnInputOf("A", "A", 1, 2, MaxSlot, NoDelegateAccount)}

NextLedger ==
    \/ Tick
    \/ \E a \in 0..InitialFunds : DepositFor("A", "T1", a, "A")
    \/ DepositFor("B", "T1", 1, "B")
    \/ \E a \in 0..1 : InitiateWithdrawal("A", "T1", a)
    \/ Withdraw("A", "T1")
    \/ \E c \in LedgerBurns : GatewayBurn(c.ctx, c.params)

SpecLedger == Init /\ [][NextLedger]_vars

\* Delegation: the depositors A and B, the delegate G, and burns out of A's
\* deposit signed by any key with any of the Delegate accounts supplied.
DelegateAccountChoices ==
    {NoDelegateAccount} \cup
    {SomeDelegateAccount(k) : k \in {<<"T1", "A", "G">>, <<"T1", "B", "G">>,
                                     <<"T2", "A", "G">>}}

DelegateArgs == {<<"A", "T1", "G">>, <<"B", "T1", "G">>, <<"A", "T2", "G">>}

AuthBurns ==
    {BurnInputOf("A", s, 1, 0, MaxSlot, acct) :
        s \in Keys, acct \in DelegateAccountChoices}

NextAuth ==
    \/ DepositFor("A", "T1", 1, "A")
    \/ \E a \in DelegateArgs : AddDelegate(a[1], a[2], a[3])
    \/ \E a \in DelegateArgs : RemoveDelegate(a[1], a[2], a[3])
    \/ \E c \in AuthBurns : GatewayBurn(c.ctx, c.params)

SpecAuth == Init /\ [][NextAuth]_vars

\* Both programs: deposits, delegation, and burns and mints that repeat
\* hashes, expire, and fail part-way.
MintElements == {ElementOf("A", 1, "h1"), ElementOf("A", 1, "h2"), ElementOf("A", 0, "h2")}

MintInputs ==
    {MintInputOf(es, MaxSlot) :
        es \in {<<e>> : e \in MintElements}
               \cup {<<ElementOf("A", 1, "h1"), e>> : e \in MintElements}}
    \cup {MintInputOf(<<ElementOf("A", 1, "h1")>>, 0)}

BurnInputs ==
    {BurnInputOf("A", "A", 1, 0, MaxSlot, NoDelegateAccount),
     BurnInputOf("A", "A", 2, 0, MaxSlot, NoDelegateAccount),
     BurnInputOf("A", "A", 1, 0, 0, NoDelegateAccount)}

\* ------------------------------------------------------- two depositors
\* Depositors A and B share the custody account of T1: B deposits and
\* withdraws while burn intents of A are presented.
OrderBurns ==
    {BurnInputOf("A", "A", v, 0, MaxSlot, NoDelegateAccount) : v \in 1..MaxAmount}

NextOrder ==
    \/ Tick
    \/ DepositFor("A", "T1", 1, "A")
    \/ DepositFor("B", "T1", 1, "B")
    \/ InitiateWithdrawal("B", "T1", 1)
    \/ Withdraw("B", "T1")
    \/ \E c \in OrderBurns : GatewayBurn(c.ctx, c.params)

SpecOrder == Init /\ [][NextOrder]_vars

\* ------------------------------------------------ burn intents that bind wrong
\* One well-formed intent of A per value, and copies of the first that differ
\* from it in exactly one bound field, or whose Ed25519 instruction differs
\* from the expected one in exactly one field. The accounts are those of A's
\* T1 deposit in every case.
BaseIntent == BurnDataOf("A", "A", 1, 0, 1, MaxSlot, 1)

BindingVariants ==
    { [BaseIntent EXCEPT !.version = WALLET_VERSION + 1],
      [BaseIntent EXCEPT !.source_domain = LocalDomain + 1],
      [BaseIntent EXCEPT !.source_contract = MinterProgram],
      [BaseIntent EXCEPT !.source_token = "T2"],
      [BaseIntent EXCEPT !.source_depositor = "B"],
      [BaseIntent EXCEPT !.fee = BaseIntent.max_fee + 1] }

DescriptorFields ==
    {"data_len", "num_signatures", "padding", "signature_offset",
     "signature_instruction_index", "public_key_offset",
     "public_key_instruction_index", "message_data_offset", "message_data_size",
     "message_instruction_index"}

DescriptorVariants ==
    LET ix == Ed25519For(BaseIntent)
        bump(g) == [f \in DOMAIN ix |-> IF f = g THEN ix[f] + 1 ELSE ix[f]]
    IN  {bump(g) : g \in DescriptorFields}
        \cup { [ix EXCEPT !.program_id = WalletProgram],
               [ix EXCEPT !.current_index = 2],
               [ix EXCEPT !.current_index = 0, !.signature_instruction_index = 0,
                          !.public_key_instruction_index = 0,
                          !.message_instruction_index = 0] }

CheckedBurns ==
    LET ctx(m) == [BurnCtxOf(BaseIntent, NoDelegateAccount)
                      EXCEPT !.remaining_accounts = <<transfer_spec_hash(m)>>,
                             !.ix = Ed25519For(m)]
        input(c, m) == [ctx |-> c, params |-> BurnParamsOf(m, SignatureBy(BurnSignerKey))]
    IN  {BurnInputOf("A", "A", v, 0, MaxSlot, NoDelegateAccount) : v \in 1..MaxAmount}
        \cup {input(ctx(m), m) : m \in BindingVariants}
        \cup {input([ctx(BaseIntent) EXCEPT !.ix = x], BaseIntent) :
                 x \in DescriptorVariants}

NextChecks ==
    \/ Tick
    \/ DepositFor("A", "T1", 1, "A")
    \/ \E c \in CheckedBurns : GatewayBurn(c.ctx, c.params)

SpecChecks == Init /\ [][NextChecks]_vars

\* -------------------------------------------- attestation sets that bind wrong
\* Well-formed sets of one and two elements, and copies of the one-element
\* set that differ from it in one header field, in one field of the element,
\* in one of the accounts passed for the element, or in the destination
\* caller and the signer presenting it.
BaseMint == MintInputOf(<<ElementOf("A", 1, "h1")>>, MaxSlot)

MintHeaderVariants ==
    LET with(att) == [ctx |-> MintCtxOf(att),
                      params |-> MintParamsOf(att, SignatureBy(AttesterKey))]
        att0 == BaseMint.params.attestation
    IN  { with([att0 EXCEPT !.version = MINTER_VERSION + 1]),
          with([att0 EXCEPT !.destination_domain = LocalDomain + 1]),
          with([att0 EXCEPT !.destination_contract = WalletProgram]),
          with([att0 EXCEPT !.elements[1].value = 0]),
          with([att0 EXCEPT !.elements[1].destination_recipient = <<"A", "T2">>]) }

MintAccountVariants ==
    { [BaseMint EXCEPT !.ctx.remaining_accounts[1].custody = <<"A", "T1">>],
      [BaseMint EXCEPT !.ctx.remaining_accounts[1].custody = <<MinterPDA, "T2">>],
      [BaseMint EXCEPT !.ctx.remaining_accounts[1].recipient = <<"B", "T1">>] }

MintCallerVariants ==
    { [BaseMint EXCEPT !.ctx.destination_caller = signer,
                       !.params.attestation.destination_caller = caller] :
          signer \in Users, caller \in Users \cup {DefaultPubkey} }

CheckedMints ==
    {MintInputOf(<<ElementOf("A", 1, "h1"), ElementOf(r, v, "h2")>>, MaxSlot) :
        r \in Users, v \in 1..MaxAmount}
    \cup MintHeaderVariants \cup MintAccountVariants \cup MintCallerVariants

NextMintChecks ==
    \/ Tick
    \/ \E c \in CheckedMints : GatewayMint(c.ctx, c.params)

SpecMintChecks == Init /\ [][NextMintChecks]_vars

\* ------------------------------------------- faulty signatures and encodings
\* Signatures of the enrolled signer k that fail one step of recovery, and a
\* sound signature by a key that is not enrolled.
SignatureVariants(k) ==
    LET s == SignatureBy(k)
    IN  { s,
          [s EXCEPT !.len = SIGNATURE_LENGTH - 1],
          [s EXCEPT !.len = SIGNATURE_LENGTH + 1],
          [s EXCEPT !.recovery_id = 26],
          [s EXCEPT !.recovery_id = 0],
          [s EXCEPT !.high_s = TRUE],
          [s EXCEPT !.parses = FALSE],
          [s EXCEPT !.recovers = FALSE],
          [s EXCEPT !.signed_this = FALSE],
          SignatureBy(StrangerKey) }

\* Burn data that BurnData::new must refuse, one reason each, and one intent
\* that carries a byte of hook data and is well-formed.
HookedIntent ==
    [BaseIntent EXCEPT !.hook_data_length = 1, !.len = @ + 1,
                       !.transfer_spec_length = @ + 1]

DecodeVariants ==
    { [BaseIntent EXCEPT !.prefix = "00000000000000000000000000000000"],
      [BaseIntent EXCEPT !.magic = TRANSFER_SPEC_MAGIC],
      [BaseIntent EXCEPT !.ts_magic = BURN_INTENT_MAGIC],
      [BaseIntent EXCEPT !.len = @ - 1],
      [BaseIntent EXCEPT !.len = @ + 1],
      [BaseIntent EXCEPT !.hook_data_length = 1],
      [HookedIntent EXCEPT !.len = @ + 1],
      [HookedIntent EXCEPT !.transfer_spec_length = @ - 1],
      [BaseIntent EXCEPT !.transfer_spec_length = @ + 1],
      [BaseIntent EXCEPT !.value = 0],
      [BaseIntent EXCEPT !.value_hi = 1] }

\* The well-formed intent with a non-zero byte among the top 24 bytes of one
\* of its 32-byte numbers, the low 8 bytes being those of the sound intent.
NarrowingVariants ==
    { [BaseIntent EXCEPT !.max_block_height_hi = 1],
      [BaseIntent EXCEPT !.max_fee_hi = 1],
      [BaseIntent EXCEPT !.value_hi = 1] }

FaultyBurns ==
    LET input(m, s) == [ctx |-> BurnCtxOf(m, NoDelegateAccount),
                        params |-> BurnParamsOf(m, s)]
    IN  {input(m, s) :
            m \in {BaseIntent, [BaseIntent EXCEPT !.magic = TRANSFER_SPEC_MAGIC],
                   [BaseIntent EXCEPT !.source_domain = LocalDomain + 1]},
            s \in SignatureVariants(BurnSignerKey)}
        \cup {input(m, SignatureBy(BurnSignerKey)) :
                 m \in DecodeVariants \cup NarrowingVariants \cup {HookedIntent}}

FaultyMints ==
    LET att0 == BaseMint.params.attestation
    IN  {[ctx |-> MintCtxOf(att), params |-> MintParamsOf(att, s)] :
            att \in {att0, [att0 EXCEPT !.magic = BURN_INTENT_MAGIC],
                     [att0 EXCEPT !.destination_domain = LocalDomain + 1]},
            s \in SignatureVariants(AttesterKey)}

NextFaults ==
    \/ DepositFor("A", "T1", 1, "A")
    \/ \E c \in FaultyBurns : GatewayBurn(c.ctx, c.params)
    \/ \E c \in FaultyMints : GatewayMint(c.ctx, c.params)

SpecFaults == Init /\ [][NextFaults]_vars

\* ------------------------------------------- burns with more than one fault
\* The well-formed intent of A, copies that violate one binding (version,
\* expiry once the slot has advanced, source domain, contract, token), each
\* presented with the expected Ed25519 instruction and with three faulty ones.
\* The well-formed intent with a faulty instruction after it was burned is the
\* used-hash case.
ExpiringIntent == [BaseIntent EXCEPT !.max_block_height = 0]

BoundIntents ==
    { BaseIntent, ExpiringIntent,
      [BaseIntent EXCEPT !.version = WALLET_VERSION + 1],
      [BaseIntent EXCEPT !.source_domain = LocalDomain + 1],
      [BaseIntent EXCEPT !.source_contract = MinterProgram],
      [BaseIntent EXCEPT !.source_token = "T2"] }

ProofVariants(m) ==
    LET ix == Ed25519For(m) IN
    { ix,
      [ix EXCEPT !.program_id = WalletProgram],
      [ix EXCEPT !.message_data_size = ix.message_data_size + 1],
      [ix EXCEPT !.public_key_offset = ix.public_key_offset + 1] }

DoubleFaultBurns ==
    LET ctx(m, x) == [BurnCtxOf(BaseIntent, NoDelegateAccount)
                         EXCEPT !.remaining_accounts = <<transfer_spec_hash(m)>>,
                                !.ix = x]
    IN  UNION { { [ctx |-> ctx(m, x),
                   params |-> BurnParamsOf(m, SignatureBy(BurnSignerKey))] :
                  x \in ProofVariants(m) } : m \in BoundIntents }

NextProofOrder ==
    \/ Tick
    \/ DepositFor("A", "T1", 1, "A")
    \/ \E c \in DoubleFaultBurns : GatewayBurn(c.ctx, c.params)

SpecProofOrder == Init /\ [][NextProofOrder]_vars

\* ------------------------------------------------- attestation bytes (codec)
\* The attestation as the sequence of its bytes, for the claims about the
\* decoder itself.  A byte is a number in 0..255; index i of the source is
\* element i + 1 of the sequence.  Integers of the model are 32 bit wide, so
\* the byte sets drawn below keep every u32 and u64 that is read under 2^31.
MAGIC_OFFSET == 0
VERSION_OFFSET == 4
DESTINATION_DOMAIN_OFFSET == 8
DESTINATION_CONTRACT_OFFSET == 12
DESTINATION_CALLER_OFFSET == 44
MAX_BLOCK_HEIGHT_OFFSET == 76
ATTESTATION_SET_NUM_ATTESTATIONS_OFFSET == 84
DESTINATION_TOKEN_OFFSET == 0
DESTINATION_RECIPIENT_OFFSET == 32
VALUE_OFFSET == 64
TRANSFER_SPEC_HASH_OFFSET == 72
HOOK_DATA_LENGTH_OFFSET == 104

\* 0x10cbb1ec.to_be_bytes()
ATTESTATION_SET_MAGIC_BYTES == <<16, 203, 177, 236>>

\* uN::from_be_bytes
RECURSIVE from_be_bytes(_)
from_be_bytes(bytes) ==
    IF bytes = <<>> THEN 0
    ELSE 256 * from_be_bytes(SubSeq(bytes, 1, Len(bytes) - 1)) + bytes[Len(bytes)]

\* uN::to_be_bytes, n the width in bytes
RECURSIVE to_be_bytes(_, _)
to_be_bytes(v, n) ==
    IF n = 0 THEN <<>> ELSE Append(to_be_bytes(v \div 256, n - 1), v % 256)

\* &data[index..end]: the bytes, or a panic when the range is not in the data
Slice(data, index, end) ==
    IF index > end \/ end > Len(data) THEN [err |-> "Panic", bytes |-> <<>>]
    ELSE [err |-> "Ok", bytes |-> SubSeq(data, index + 1, end)]

\* read_u32, read_u64: [err, value]
read_uint(self, index, width) ==
    LET s == Slice(self.data, index, index + width) IN
    IF s.err # "Ok" THEN [err |-> s.err, value |-> 0]
    ELSE [err |-> "Ok", value |-> from_be_bytes(s.bytes)]

read_u32(self, index) == read_uint(self, index, 4)

read_u64(self, index) == read_uint(self, index, 8)

\* read_pubkey, read_bytes::<32>: [err, value]
read_bytes(self, index, width) ==
    LET s == Slice(self.data, index, index + width) IN
    [err |-> s.err, value |-> s.bytes]

\* The accessors of MintAttestation by name: [err, value]
Accessors ==
    {"magic", "num_attestations", "version", "destination_domain",
     "destination_contract", "destination_token", "destination_recipient",
     "destination_caller", "value", "max_block_height", "transfer_spec_hash",
     "hook_data_length", "hook_data"}

attestation_hook_data_length(self) == read_u32(self, self.offset + HOOK_DATA_LENGTH_OFFSET)

attestation_hook_data(self) ==
    LET hook_data_offset == self.offset + HOOK_DATA_OFFSET
        length == attestation_hook_data_length(self)
    IN  IF length.err # "Ok" THEN [err |-> length.err, value |-> <<>>]
        ELSE read_bytes(self, hook_data_offset, length.value)

Accessor(self, name) ==
    CASE name = "magic" -> read_u32(self, MAGIC_OFFSET)
      [] name = "num_attestations" ->
             read_u32(self, ATTESTATION_SET_NUM_ATTESTATIONS_OFFSET)
      [] name = "version" -> read_u32(self, VERSION_OFFSET)
      [] name = "destination_domain" -> read_u32(self, DESTINATION_DOMAIN_OFFSET)
      [] name = "destination_contract" ->
             read_bytes(self, DESTINATION_CONTRACT_OFFSET, 32)
      [] name = "destination_token" ->
             read_bytes(self, self.offset + DESTINATION_TOKEN_OFFSET, 32)
      [] name = "destination_recipient" ->
             read_bytes(self, self.offset + DESTINATION_RECIPIENT_OFFSET, 32)
      [] name = "destination_caller" ->
             read_bytes(self, DESTINATION_CALLER_OFFSET, 32)
      [] name = "value" -> read_u64(self, self.offset + VALUE_OFFSET)
      [] name = "max_block_height" -> read_u64(self, MAX_BLOCK_HEIGHT_OFFSET)
      [] name = "transfer_spec_hash" ->
             read_bytes(self, self.offset + TRANSFER_SPEC_HASH_OFFSET, 32)
      [] name = "hook_data_length" -> attestation_hook_data_length(self)
      [] name = "hook_data" -> attestation_hook_data(self)

\* MintAttestation::new on the bytes: [err, self] with
\* self = [data, offset, index, num_elements]
attestation_new(message_bytes) ==
    LET self0 == [data |-> message_bytes, offset |-> 0, index |-> 0, num_elements |-> 0]
        magic == read_u32(self0, MAGIC_OFFSET)
        num == read_u32(self0, ATTESTATION_SET_NUM_ATTESTATIONS_OFFSET)
        self1 == [self0 EXCEPT !.num_elements = num.value,
                               !.offset = ATTESTATION_SET_ATTESTATIONS_OFFSET]
    IN  IF ~(Len(message_bytes) >= ATTESTATION_SET_ATTESTATIONS_OFFSET + HOOK_DATA_OFFSET)
        THEN [err |-> "AttestationTooShort", self |-> self0]
        ELSE IF magic.err # "Ok" THEN [err |-> magic.err, self |-> self0]
        ELSE IF magic.value # from_be_bytes(ATTESTATION_SET_MAGIC_BYTES)
        THEN [err |-> "AttestationMagicMismatch", self |-> self0]
        ELSE IF num.err # "Ok" THEN [err |-> num.err, self |-> self0]
        ELSE IF ~(self1.num_elements > 0)
        THEN [err |-> "EmptyAttestationSet", self |-> self1]
        ELSE [err |-> "Ok", self |-> self1]

\* Variant: a call past the last element rewinds to the first.
attestation_next_rewinding(self) ==
    IF self.index >= self.num_elements
    THEN [err |-> "Ok", more |-> FALSE,
          self |-> [self EXCEPT !.index = 0,
                                !.offset = ATTESTATION_SET_ATTESTATIONS_OFFSET]]
    ELSE LET advance == attestation_hook_data_length(self)
             self1 == IF self.index > 0
                      THEN [self EXCEPT !.offset = @ + HOOK_DATA_OFFSET + advance.value]
                      ELSE self
             self2 == [self1 EXCEPT !.index = @ + 1]
             fail(e) == [err |-> e, more |-> FALSE, self |-> self2]
         IN  IF self.index > 0 /\ advance.err # "Ok"
             THEN [err |-> advance.err, more |-> FALSE, self |-> self]
             ELSE IF self2.offset > Len(self2.data) THEN fail("Panic")
             ELSE LET remaining_length == Len(self2.data) - self2.offset
                      length == attestation_hook_data_length(self2)
                      attestation_length == HOOK_DATA_OFFSET + length.value
                  IN  IF ~(remaining_length >= HOOK_DATA_OFFSET)
                      THEN fail("AttestationTooShort")
                      ELSE IF length.err # "Ok" THEN fail(length.err)
                      ELSE IF ~(remaining_length >= attestation_length)
                      THEN fail("AttestationTooShort")
                      ELSE IF self2.index = self2.num_elements
                              /\ self2.offset + attestation_length # Len(self2.data)
                      THEN fail("AttestationTooLong")
                      ELSE [err |-> "Ok", more |-> TRUE, self |-> self2]

\* Variant: bytes after the last declared element are not looked at.
attestation_next_any_length(self) ==
    IF self.index >= self.num_elements
    THEN [err |-> "Ok", more |-> FALSE, self |-> self]
    ELSE LET advance == attestation_hook_data_length(self)
             self1 == IF self.index > 0
                      THEN [self EXCEPT !.offset = @ + HOOK_DATA_OFFSET + advance.value]
                      ELSE self
             self2 == [self1 EXCEPT !.index = @ + 1]
             fail(e) == [err |-> e, more |-> FALSE, self |-> self2]
         IN  IF self.index > 0 /\ advance.err # "Ok"
             THEN [err |-> advance.err, more |-> FALSE, self |-> self]
             ELSE IF self2.offset > Len(self2.data) THEN fail("Panic")
             ELSE LET remaining_length == Len(self2.data) - self2.offset
                      length == attestation_hook_data_length(self2)
                      attestation_length == HOOK_DATA_OFFSET + length.value
                  IN  IF ~(remaining_length >= HOOK_DATA_OFFSET)
                      THEN fail("AttestationTooShort")
                      ELSE IF length.err # "Ok" THEN fail(length.err)
                      ELSE IF ~(remaining_length >= attestation_length)
                      THEN fail("AttestationTooShort")
                      ELSE [err |-> "Ok", more |-> TRUE, self |-> self2]

\* Variant: the element's fixed part is read without comparing it with what
\* is left of the buffer.
attestation_next_unchecked_header(self) ==
    IF self.index >= self.num_elements
    THEN [err |-> "Ok", more |-> FALSE, self |-> self]
    ELSE LET advance == attestation_hook_data_length(self)
             self1 == IF self.index > 0
                      THEN [self EXCEPT !.offset = @ + HOOK_DATA_OFFSET + advance.value]
                      ELSE self
             self2 == [self1 EXCEPT !.index = @ + 1]
             fail(e) == [err |-> e, more |-> FALSE, self |-> self2]
         IN  IF self.index > 0 /\ advance.err # "Ok"
             THEN [err |-> advance.err, more |-> FALSE, self |-> self]
             ELSE IF self2.offset > Len(self2.data) THEN fail("Panic")
             ELSE LET remaining_length == Len(self2.data) - self2.offset
                      length == attestation_hook_data_length(self2)
                      attestation_length == HOOK_DATA_OFFSET + length.value
                  IN  IF length.err # "Ok" THEN fail(length.err)
                      ELSE IF ~(remaining_length >= attestation_length)
                      THEN fail("AttestationTooShort")
                      ELSE IF self2.index = self2.num_elements
                              /\ self2.offset + attestation_length # Len(self2.data)
                      THEN fail("AttestationTooLong")
                      ELSE [err |-> "Ok", more |-> TRUE, self |-> self2]

\* MintAttestation::next: [err, more, self], self as the call leaves the
\* object, also when it fails.  data.len() - offset with offset beyond the
\* data panics when overflow checks are compiled in; without them it wraps to
\* a length that passes the first comparison, and the read of the hook data
\* length that follows is out of range and panics: a panic in every build.
attestation_next(self) ==
    IF self.index >= self.num_elements
    THEN [err |-> "Ok", more |-> FALSE, self |-> self]
    ELSE LET advance == attestation_hook_data_length(self)
             self1 == IF self.index > 0
                      THEN [self EXCEPT !.offset = @ + HOOK_DATA_OFFSET + advance.value]
                      ELSE self
             self2 == [self1 EXCEPT !.index = @ + 1]
             fail(e) == [err |-> e, more |-> FALSE, self |-> self2]
         IN  IF self.index > 0 /\ advance.err # "Ok"
             THEN [err |-> advance.err, more |-> FALSE, self |-> self]
             ELSE IF self2.offset > Len(self2.data) THEN fail("Panic")
             ELSE LET remaining_length == Len(self2.data) - self2.offset
                      length == attestation_hook_data_length(self2)
                      attestation_length == HOOK_DATA_OFFSET + length.value
                  IN  IF ~(remaining_length >= HOOK_DATA_OFFSET)
                      THEN fail("AttestationTooShort")
                      ELSE IF length.err # "Ok" THEN fail(length.err)
                      ELSE IF ~(remaining_length >= attestation_length)
                      THEN fail("AttestationTooShort")
                      ELSE IF self2.index = self2.num_elements
                              /\ self2.offset + attestation_length # Len(self2.data)
                      THEN fail("AttestationTooLong")
                      ELSE [err |-> "Ok", more |-> TRUE, self |-> self2]

\* MintAttestationStruct::encode_attestation.  s: [version,
\* destination_domain, destination_contract, destination_caller,
\* max_block_height, elements], an element: [destination_token,
\* destination_recipient, value, transfer_spec_hash, hook_data]
RECURSIVE encode_elements(_)
encode_elements(elements) ==
    IF elements = <<>> THEN <<>>
    ELSE LET element == Head(elements)
         IN  element.destination_token \o element.destination_recipient
             \o to_be_bytes(element.value, 8) \o element.transfer_spec_hash
             \o to_be_bytes(Len(element.hook_data), 4) \o element.hook_data
             \o encode_elements(Tail(elements))

\* Variant: the number of elements is written before max_block_height.
encode_attestation_count_first(s) ==
    LET num_elements == Len(s.elements) IN
    ATTESTATION_SET_MAGIC_BYTES \o to_be_bytes(s.version, 4)
    \o to_be_bytes(s.destination_domain, 4) \o s.destination_contract
    \o s.destination_caller \o to_be_bytes(num_elements, 4)
    \o to_be_bytes(s.max_block_height, 8) \o encode_elements(s.elements)

encode_attestation(s) ==
    LET num_elements == Len(s.elements) IN
    ATTESTATION_SET_MAGIC_BYTES \o to_be_bytes(s.version, 4)
    \o to_be_bytes(s.destination_domain, 4) \o s.destination_contract
    \o s.destination_caller \o to_be_bytes(s.max_block_height, 8)
    \o to_be_bytes(num_elements, 4) \o encode_elements(s.elements)

\* -------------------------------------------------- decoding as a client does
\* A MintAttestation object lives in `last` between the calls made on it:
\* self as the last call left it, the number of next() calls made and of
\* those that returned true.  A panic ends the program, a failed new() leaves
\* no object; a failed next() leaves the object as it was when it returned.
DecoderOps == {"attestation_new", "attestation_next", "attestation_accessor"}

DecoderAlive ==
    /\ last.op \in DecoderOps
    /\ last.err # "Panic"
    /\ last.op = "attestation_new" => last.err = "Ok"

DecodeNew(input) ==
    LET r == attestation_new(input.message_bytes) IN
    /\ last' = [op |-> "attestation_new", err |-> r.err, events |-> <<>>,
                input |-> input, self |-> r.self, more |-> FALSE,
                calls |-> 0, trues |-> 0, accessor |-> "none", read |-> <<>>]
    /\ UNCHANGED <<slot, gateway_wallet, gateway_minter, deposits, delegates,
                   denylisted, usedW, usedM, tok>>

DecodeNext ==
    /\ DecoderAlive
    /\ last.calls < MaxNextCalls
    /\ LET r == attestation_next(last.self) IN
       last' = [last EXCEPT !.op = "attestation_next", !.err = r.err,
                            !.self = r.self, !.more = r.more,
                            !.calls = @ + 1,
                            !.trues = IF r.more THEN @ + 1 ELSE @,
                            !.accessor = "none", !.read = <<>>]
    /\ UNCHANGED <<slot, gateway_wallet, gateway_minter, deposits, delegates,
                   denylisted, usedW, usedM, tok>>

DecodeAccessor(name) ==
    /\ DecoderAlive
    /\ LET r == Accessor(last.self, name) IN
       last' = [last EXCEPT !.op = "attestation_accessor", !.err = r.err,
                            !.accessor = name, !.read = r.value]
    /\ UNCHANGED <<slot, gateway_wallet, gateway_minter, deposits, delegates,
                   denylisted, usedW, usedM, tok>>

\* ------------------------------------------------------- attestation buffers
\* The structs to encode: 1..MaxElements elements that differ in recipient,
\* value and hash, each with no hook data or MaxHookData bytes of it.
Fill(b) == [i \in 1..32 |-> b]

CodecElement(i, hook_data_length) ==
    [destination_token |-> Fill(1), destination_recipient |-> Fill(10 + i),
     value |-> i, transfer_spec_hash |-> Fill(20 + i),
     hook_data |-> [k \in 1..hook_data_length |-> 40 + i]]

CodecStruct(hooks) ==
    [version |-> MINTER_VERSION, destination_domain |-> LocalDomain,
     destination_contract |-> Fill(2), destination_caller |-> Fill(0),
     max_block_height |-> MaxSlot,
     elements |-> [i \in 1..Len(hooks) |-> CodecElement(i, hooks[i])]]

CodecStructs ==
    {CodecStruct(hooks) :
        hooks \in UNION {[1..n -> {0, MaxHookData}] : n \in 1..MaxElements}}

\* data with the bytes from index on replaced by `bytes`
Overwrite(data, index, bytes) ==
    [i \in 1..Len(data) |->
        IF i > index /\ i <= index + Len(bytes) THEN bytes[i - index] ELSE data[i]]

\* kind names what was done to the encoding of `source`: nothing, one byte
\* appended, or num_attestations raised by one.
CodecInput(kind, s, bytes) == [kind |-> kind, source |-> s, message_bytes |-> bytes]

CodecInputs ==
    {CodecInput("well-formed", s, encode_attestation(s)) : s \in CodecStructs}
    \cup {CodecInput("trailing", s, encode_attestation(s) \o <<0>>) :
             s \in CodecStructs}
    \cup {CodecInput("overdeclared", s,
                     Overwrite(encode_attestation(s),
                               ATTESTATION_SET_NUM_ATTESTATIONS_OFFSET,
                               to_be_bytes(Len(s.elements) + 1, 4))) :
             s \in CodecStructs}

\* Numbers of bytes cut off the end of an encoding: inside the hook data, the
\* hook data length, the fields of an element, and a whole element and more.
CutSizes == {1, 5, 44, 108, 109}

\* Buffers that are no encoding: truncated, declaring no element, with
\* another magic, or with a hook data length of the first element far beyond
\* the buffer.
FaultyBuffers ==
    {CodecInput("truncated", s,
                SubSeq(encode_attestation(s), 1, Len(encode_attestation(s)) - d)) :
        s \in CodecStructs, d \in CutSizes}
    \cup {CodecInput("empty", s,
                     Overwrite(encode_attestation(s),
                               ATTESTATION_SET_NUM_ATTESTATIONS_OFFSET,
                               to_be_bytes(0, 4))) : s \in CodecStructs}
    \cup {CodecInput("magic", s,
                     Overwrite(encode_attestation(s), MAGIC_OFFSET,
                               <<16, 203, 177, 237>>)) : s \in CodecStructs}
    \cup {CodecInput("hook-length", s,
                     Overwrite(encode_attestation(s),
                               ATTESTATION_SET_ATTESTATIONS_OFFSET
                                  + HOOK_DATA_LENGTH_OFFSET,
                               <<127, 127, 127, 127>>)) : s \in CodecStructs}

\* Attestation sets that declare one element more than they hold, signed by
\* the attester, with the accounts of the declared and of the present elements.
OverdeclaredMints ==
    LET h(i) == <<"h1", "h2", "h3", "h4", "h5">>[i]
        att(k) ==
            [AttestationOf([i \in 1..k |-> ElementOf("A", 1, h(i))], MaxSlot)
                EXCEPT !.num_attestations = k + 1]
        accounts(k) ==
            [i \in 1..k |->
                [custody |-> <<MinterPDA, "T1">>, recipient |-> <<"A", "T1">>,
                 hash_account |-> h(i)]]
    IN  {[ctx |-> [destination_caller |-> "A", remaining_accounts |-> accounts(j)],
          params |-> MintParamsOf(att(k), SignatureBy(AttesterKey))] :
            k \in 1..MaxElements, j \in 1..(MaxElements + 1)}

NextCodec ==
    \/ \E input \in CodecInputs : DecodeNew(input)
    \/ DecodeNext
    \/ \E name \in Accessors : DecodeAccessor(name)
    \/ \E c \in OverdeclaredMints : GatewayMint(c.ctx, c.params)

SpecCodec == Init /\ [][NextCodec]_vars

\* Any calls on any of the buffers.
NextDecodeAny ==
    \/ \E input \in CodecInputs \cup FaultyBuffers : DecodeNew(input)
    \/ DecodeNext
    \/ \E name \in Accessors : DecodeAccessor(name)

SpecDecodeAny == Init /\ [][NextDecodeAny]_vars

\* ------------------------------------------------ burn signers and attesters
\* Vec::remove(position of e): the other members keep their order.
RemoveMember(s, e) == SelectSeq(s, LAMBDA x : x # e)

\* Variant: the length of the set is not checked before a member is pushed.
add_burn_signer_unbounded(gw, signer) ==
    IF is_burn_signer(gw, signer) THEN [err |-> "Ok", gw |-> gw]
    ELSE [err |-> "Ok", gw |-> [gw EXCEPT !.burn_signers = Append(@, signer)]]

\* GatewayWallet::add_burn_signer: [err, gw]
add_burn_signer(gw, signer) ==
    IF is_burn_signer(gw, signer) THEN [err |-> "Ok", gw |-> gw]
    ELSE IF Len(gw.burn_signers) >= MAX_BURN_SIGNERS
    THEN [err |-> "BurnSignerLimitExceeded", gw |-> gw]
    ELSE [err |-> "Ok", gw |-> [gw EXCEPT !.burn_signers = Append(@, signer)]]

\* Variant: removal does nothing.
remove_burn_signer_kept(gw, signer) == [err |-> "Ok", gw |-> gw]

\* GatewayWallet::remove_burn_signer: [err, gw]
remove_burn_signer(gw, signer) ==
    IF ~Contains(gw.burn_signers, signer) THEN [err |-> "Ok", gw |-> gw]
    ELSE [err |-> "Ok",
          gw |-> [gw EXCEPT !.burn_signers = RemoveMember(@, signer)]]

is_attester_enabled(gm, attester) == Contains(gm.enabled_attesters, attester)

\* GatewayMinter::add_attester: [err, gm]
add_attester(gm, attester) ==
    IF is_attester_enabled(gm, attester) THEN [err |-> "Ok", gm |-> gm]
    ELSE IF Len(gm.enabled_attesters) >= MAX_ATTESTERS
    THEN [err |-> "AttesterLimitExceeded", gm |-> gm]
    ELSE [err |-> "Ok", gm |-> [gm EXCEPT !.enabled_attesters = Append(@, attester)]]

\* GatewayMinter::remove_attester: [err, gm]
remove_attester(gm, attester) ==
    IF ~Contains(gm.enabled_attesters, attester) THEN [err |-> "Ok", gm |-> gm]
    ELSE [err |-> "Ok",
          gm |-> [gm EXCEPT !.enabled_attesters = RemoveMember(@, attester)]]

\* add_burn_signer instruction (wallet): owner only, the default key is
\* refused, then GatewayWallet::add_burn_signer.  [err, gw, events]
AddBurnSignerResult(authority, signer) ==
    IF authority # gateway_wallet.owner
    THEN [err |-> "InvalidAuthority", gw |-> gateway_wallet, events |-> <<>>]
    ELSE IF signer = DefaultPubkey
    THEN [err |-> "InvalidBurnSigner", gw |-> gateway_wallet, events |-> <<>>]
    ELSE LET r == add_burn_signer(gateway_wallet, signer)
         IN  [err |-> r.err, gw |-> r.gw,
              events |-> IF r.err = "Ok" THEN <<"BurnSignerAdded">> ELSE <<>>]

AddBurnSigner(authority, signer) ==
    LET r == AddBurnSignerResult(authority, signer) IN
    /\ gateway_wallet' = Committed(r.err, gateway_wallet, r.gw)
    /\ last' = [op |-> "add_burn_signer", err |-> r.err, events |-> r.events,
                authority |-> authority, key |-> signer,
                members_before |-> gateway_wallet.burn_signers]
    /\ UNCHANGED <<slot, gateway_minter, deposits, delegates, denylisted,
                   usedW, usedM, tok>>

\* remove_burn_signer instruction: owner only.  [err, gw, events]
RemoveBurnSignerResult(authority, signer) ==
    IF authority # gateway_wallet.owner
    THEN [err |-> "InvalidAuthority", gw |-> gateway_wallet, events |-> <<>>]
    ELSE LET r == remove_burn_signer(gateway_wallet, signer)
         IN  [err |-> r.err, gw |-> r.gw,
              events |-> IF r.err = "Ok" THEN <<"BurnSignerRemoved">> ELSE <<>>]

RemoveBurnSigner(authority, signer) ==
    LET r == RemoveBurnSignerResult(authority, signer) IN
    /\ gateway_wallet' = Committed(r.err, gateway_wallet, r.gw)
    /\ last' = [op |-> "remove_burn_signer", err |-> r.err, events |-> r.events,
                authority |-> authority, key |-> signer,
                members_before |-> gateway_wallet.burn_signers]
    /\ UNCHANGED <<slot, gateway_minter, deposits, delegates, denylisted,
                   usedW, usedM, tok>>

\* add_attester instruction: owner only, the default key is refused.
\* [err, gm, events]
AddAttesterResult(authority, attester) ==
    IF authority # gateway_minter.owner
    THEN [err |-> "InvalidAuthority", gm |-> gateway_minter, events |-> <<>>]
    ELSE IF attester = DefaultPubkey
    THEN [err |-> "InvalidAttester", gm |-> gateway_minter, events |-> <<>>]
    ELSE LET r == add_attester(gateway_minter, attester)
         IN  [err |-> r.err, gm |-> r.gm,
              events |-> IF r.err = "Ok" THEN <<"AttestationSignerAdded">> ELSE <<>>]

AddAttester(authority, attester) ==
    LET r == AddAttesterResult(authority, attester) IN
    /\ gateway_minter' = Committed(r.err, gateway_minter, r.gm)
    /\ last' = [op |-> "add_attester", err |-> r.err, events |-> r.events,
                authority |-> authority, key |-> attester,
                members_before |-> gateway_minter.enabled_attesters]
    /\ UNCHANGED <<slot, gateway_wallet, deposits, delegates, denylisted,
                   usedW, usedM, tok>>

\* remove_attester instruction (minter): owner only, then
\* GatewayMinter::remove_attester.  [err, gm, events]
RemoveAttesterResult(authority, attester) ==
    IF authority # gateway_minter.owner
    THEN [err |-> "InvalidAuthority", gm |-> gateway_minter, events |-> <<>>]
    ELSE LET r == remove_attester(gateway_minter, attester)
         IN  [err |-> r.err, gm |-> r.gm,
              events |-> IF r.err = "Ok" THEN <<"AttestationSignerRemoved">> ELSE <<>>]

RemoveAttester(authority, attester) ==
    LET r == RemoveAttesterResult(authority, attester) IN
    /\ gateway_minter' = Committed(r.err, gateway_minter, r.gm)
    /\ last' = [op |-> "remove_attester", err |-> r.err, events |-> r.events,
                authority |-> authority, key |-> attester,
                members_before |-> gateway_minter.enabled_attesters]
    /\ UNCHANGED <<slot, gateway_wallet, deposits, delegates, denylisted,
                   usedW, usedM, tok>>

\* The state after the owner enrolled eight further burn signers and eight
\* further attesters: one place is left in each set.
EnrolledKeys == <<"E1", "E2", "E3", "E4", "E5", "E6", "E7", "E8">>

InitEnrolled ==
    /\ slot = 0
    /\ gateway_wallet = [InitWallet EXCEPT !.burn_signers = @ \o EnrolledKeys]
    /\ gateway_minter = [InitMinter EXCEPT !.enabled_attesters = @ \o EnrolledKeys]
    /\ deposits = [k \in DepositKeys |-> NoDeposit]
    /\ delegates = [k \in DelegateKeys |-> NoDelegate]
    /\ denylisted = {}
    /\ usedW = {}
    /\ usedM = {}
    /\ tok = InitTok
    /\ last = NoCall

\* Keys presented for enrolment (one already enrolled in each set, the default
\* key and three new ones) and for removal (the first member, a new key and a
\* key that is never enrolled).
NewKeys == {"N1", "N2", "N3"}

NextEnrolment ==
    \/ \E a \in {Admin, "A"}, k \in NewKeys \cup {BurnSignerKey, "E1", DefaultPubkey} :
          AddBurnSigner(a, k)
    \/ \E a \in {Admin, "A"}, k \in {BurnSignerKey, "N1", StrangerKey} :
          RemoveBurnSigner(a, k)
    \/ \E a \in {Admin, "A"}, k \in NewKeys \cup {AttesterKey, "E1", DefaultPubkey} :
          AddAttester(a, k)
    \/ \E a \in {Admin, "A"}, k \in {AttesterKey, "N1", StrangerKey} :
          RemoveAttester(a, k)

SpecEnrolment == InitEnrolled /\ [][NextEnrolment]_vars

\* ---------------------------------------------------------------- revocation
\* The owner removes and re-enrols the burn signer, a second burn signer and
\* the attester, while burns countersigned by either burn signer (two intents
\* of A that differ in their salt) and mints signed by the attester are
\* presented.
RevocationBurns ==
    {[ctx |-> BurnCtxOf(m, NoDelegateAccount),
      params |-> BurnParamsOf(m, SignatureBy(k))] :
        m \in {BurnDataOf("A", "A", 1, 0, 1, MaxSlot, s) : s \in 1..2},
        k \in {BurnSignerKey, "N1"}}

RevocationMints ==
    {MintInputOf(<<ElementOf("A", 1, h)>>, MaxSlot) : h \in {"h1", "h2"}}

NextRevocation ==
    \/ DepositFor("A", "T1", 1, "A")
    \/ \E k \in {BurnSignerKey, "N1"} : AddBurnSigner(Admin, k)
    \/ \E a \in {Admin, "A"}, k \in {BurnSignerKey, "N1"} : RemoveBurnSigner(a, k)
    \/ AddAttester(Admin, AttesterKey)
    \/ \E a \in {Admin, "A"} : RemoveAttester(a, AttesterKey)
    \/ \E c \in RevocationBurns : GatewayBurn(c.ctx, c.params)
    \/ \E c \in RevocationMints : GatewayMint(c.ctx, c.params)

SpecRevocation == Init /\ [][NextRevocation]_vars

\* ------------------------------------------------------- pause and denylist
\* pause instruction of the minter: pauser only.  [err, paused, events]
PauseResult(program, authority) ==
    IF authority # program.pauser
    THEN [err |-> "InvalidAuthority", paused |-> program.paused, events |-> <<>>]
    ELSE [err |-> "Ok", paused |-> TRUE, events |-> <<"Paused">>]

\* unpause instruction: pauser only.  [err, paused, events]
UnpauseResult(program, authority) ==
    IF authority # program.pauser
    THEN [err |-> "InvalidAuthority", paused |-> program.paused, events |-> <<>>]
    ELSE [err |-> "Ok", paused |-> FALSE, events |-> <<"Unpaused">>]

MinterPause(authority) ==
    LET r == PauseResult(gateway_minter, authority) IN
    /\ gateway_minter' = [gateway_minter EXCEPT !.paused = r.paused]
    /\ last' = [op |-> "gateway_minter::pause", err |-> r.err, events |-> r.events,
                authority |-> authority]
    /\ UNCHANGED <<slot, gateway_wallet, deposits, delegates, denylisted,
                   usedW, usedM, tok>>

MinterUnpause(authority) ==
    LET r == UnpauseResult(gateway_minter, authority) IN
    /\ gateway_minter' = [gateway_minter EXCEPT !.paused = r.paused]
    /\ last' = [op |-> "gateway_minter::unpause", err |-> r.err, events |-> r.events,
                authority |-> authority]
    /\ UNCHANGED <<slot, gateway_wallet, deposits, delegates, denylisted,
                   usedW, usedM, tok>>

WalletPause(authority) ==
    LET r == PauseResult(gateway_wallet, authority) IN
    /\ gateway_wallet' = [gateway_wallet EXCEPT !.paused = r.paused]
    /\ last' = [op |-> "gateway_wallet::pause", err |-> r.err, events |-> r.events,
                authority |-> authority]
    /\ UNCHANGED <<slot, gateway_minter, deposits, delegates, denylisted,
                   usedW, usedM, tok>>

WalletUnpause(authority) ==
    LET r == UnpauseResult(gateway_wallet, authority) IN
    /\ gateway_wallet' = [gateway_wallet EXCEPT !.paused = r.paused]
    /\ last' = [op |-> "gateway_wallet::unpause", err |-> r.err, events |-> r.events,
                authority |-> authority]
    /\ UNCHANGED <<slot, gateway_minter, deposits, delegates, denylisted,
                   usedW, usedM, tok>>

\* denylist instruction: denylister only; init_if_needed creates the Denylist
\* account of `account` or takes the existing one.  [err, denylisted, events]
DenylistResult(authority, account) ==
    IF authority # gateway_wallet.denylister
    THEN [err |-> "InvalidAuthority", denylisted |-> denylisted, events |-> <<>>]
    ELSE [err |-> "Ok", denylisted |-> denylisted \cup {account},
          events |-> <<"Denylisted">>]

Denylist(authority, account) ==
    LET r == DenylistResult(authority, account) IN
    /\ denylisted' = Committed(r.err, denylisted, r.denylisted)
    /\ last' = [op |-> "denylist", err |-> r.err, events |-> r.events,
                authority |-> authority, key |-> account]
    /\ UNCHANGED <<slot, gateway_wallet, gateway_minter, deposits, delegates,
                   usedW, usedM, tok>>

\* undenylist instruction: the Denylist account of `account` must exist,
\* denylister only; the account is closed.  [err, denylisted, events]
UndenylistResult(authority, account) ==
    IF account \notin denylisted
    THEN [err |-> "AccountNotInitialized", denylisted |-> denylisted, events |-> <<>>]
    ELSE IF authority # gateway_wallet.denylister
    THEN [err |-> "InvalidAuthority", denylisted |-> denylisted, events |-> <<>>]
    ELSE [err |-> "Ok", denylisted |-> denylisted \ {account},
          events |-> <<"UnDenylisted">>]

Undenylist(authority, account) ==
    LET r == UndenylistResult(authority, account) IN
    /\ denylisted' = Committed(r.err, denylisted, r.denylisted)
    /\ last' = [op |-> "undenylist", err |-> r.err, events |-> r.events,
                authority |-> authority, key |-> account]
    /\ UNCHANGED <<slot, gateway_wallet, gateway_minter, deposits, delegates,
                   usedW, usedM, tok>>

\* Both programs paused and unpaused by the pauser while B deposits, starts
\* and completes a withdrawal, manages the delegate G and burns, a set is
\* minted to A, the owner removes the burn signer and the denylister lists A.
PauseBurns == {BurnInputOf("B", "B", 1, 0, MaxSlot, NoDelegateAccount)}

PauseMints == {MintInputOf(<<ElementOf("A", 1, "h1")>>, MaxSlot)}

NextPause ==
    \/ Tick
    \/ \E a \in {Admin, "B"} : WalletPause(a)
    \/ WalletUnpause(Admin)
    \/ \E a \in {Admin, "B"} : MinterPause(a)
    \/ MinterUnpause(Admin)
    \/ DepositFor("B", "T1", 1, "B")
    \/ InitiateWithdrawal("B", "T1", 1)
    \/ Withdraw("B", "T1")
    \/ AddDelegate("B", "T1", "G")
    \/ RemoveDelegate("B", "T1", "G")
    \/ \E c \in PauseBurns : GatewayBurn(c.ctx, c.params)
    \/ \E c \in PauseMints : GatewayMint(c.ctx, c.params)
    \/ RemoveBurnSigner(Admin, BurnSignerKey)
    \/ Denylist(Admin, "A")

SpecPause == Init /\ [][NextPause]_vars

\* The denylister lists and unlists A and G (a stranger tries to list) while
\* A and B deposit for each other, A names G as delegate, starts and
\* completes a withdrawal and burns.
DenylistBurns == {BurnInputOf("A", "A", 1, 0, MaxSlot, NoDelegateAccount)}

NextDenylist ==
    \/ Tick
    \/ \E a \in {Admin, "A"}, k \in {"A", "G"} : Denylist(a, k)
    \/ \E k \in {"A", "G"} : Undenylist(Admin, k)
    \/ \E p \in {<<"A", "A">>, <<"A", "B">>, <<"B", "A">>} :
          DepositFor(p[1], "T1", 1, p[2])
    \/ AddDelegate("A", "T1", "G")
    \/ InitiateWithdrawal("A", "T1", 1)
    \/ Withdraw("A", "T1")
    \/ \E c \in DenylistBurns : GatewayBurn(c.ctx, c.params)

SpecDenylist == Init /\ [][NextDenylist]_vars

\* ----------------------------------------------------- ownership of the minter
\* transfer_ownership: owner only; any key may be nominated.  [err, gm, events]
TransferOwnershipResult(authority, new_owner) ==
    IF authority # gateway_minter.owner
    THEN [err |-> "InvalidAuthority", gm |-> gateway_minter, events |-> <<>>]
    ELSE [err |-> "Ok", gm |-> [gateway_minter EXCEPT !.pending_owner = new_owner],
          events |-> <<"OwnershipTransferStarted">>]

TransferOwnership(authority, new_owner) ==
    LET r == TransferOwnershipResult(authority, new_owner) IN
    /\ gateway_minter' = Committed(r.err, gateway_minter, r.gm)
    /\ last' = [op |-> "transfer_ownership", err |-> r.err, events |-> r.events,
                authority |-> authority, key |-> new_owner]
    /\ UNCHANGED <<slot, gateway_wallet, deposits, delegates, denylisted,
                   usedW, usedM, tok>>

\* Variant: the nomination is left in place after it was accepted.
AcceptOwnershipResultKeepPending(authority) ==
    IF authority # gateway_minter.pending_owner
    THEN [err |-> "InvalidAuthority", gm |-> gateway_minter, events |-> <<>>]
    ELSE [err |-> "Ok",
          gm |-> [gateway_minter EXCEPT !.owner = gateway_minter.pending_owner],
          events |-> <<"OwnershipTransferred">>]

\* accept_ownership: signed by pending_owner.  [err, gm, events]
AcceptOwnershipResult(authority) ==
    IF authority # gateway_minter.pending_owner
    THEN [err |-> "InvalidAuthority", gm |-> gateway_minter, events |-> <<>>]
    ELSE [err |-> "Ok",
          gm |-> [gateway_minter EXCEPT !.owner = gateway_minter.pending_owner,
                                        !.pending_owner = DefaultPubkey],
          events |-> <<"OwnershipTransferred">>]

AcceptOwnership(authority) ==
    LET r == AcceptOwnershipResult(authority) IN
    /\ gateway_minter' = Committed(r.err, gateway_minter, r.gm)
    /\ last' = [op |-> "accept_ownership", err |-> r.err, events |-> r.events,
                authority |-> authority, key |-> gateway_minter.pending_owner]
    /\ UNCHANGED <<slot, gateway_wallet, deposits, delegates, denylisted,
                   usedW, usedM, tok>>

\* Admin, A and B sign transfer_ownership (nominating A, B, Admin or the
\* default key), accept_ownership, and the owner-only add_attester and
\* remove_attester.  The default key cannot sign: it has no private key.
OwnershipSigners == {Admin, "A", "B"}

NextOwnership ==
    \/ \E a \in OwnershipSigners, n \in OwnershipSigners \cup {DefaultPubkey} :
          TransferOwnership(a, n)
    \/ \E a \in OwnershipSigners : AcceptOwnership(a)
    \/ \E a \in OwnershipSigners : AddAttester(a, "N1")
    \/ \E a \in OwnershipSigners : RemoveAttester(a, "N1")

SpecOwnership == Init /\ [][NextOwnership]_vars

Next ==
    \/ Tick
    \/ \E a \in 0..1 : DepositFor("A", "T1", a, "A")
    \/ AddDelegate("A", "T1", "G")
    \/ RemoveDelegate("A", "T1", "G")
    \/ \E c \in BurnInputs : GatewayBurn(c.ctx, c.params)
    \/ \E c \in MintInputs : GatewayMint(c.ctx, c.params)

Spec == Init /\ [][Next]_vars

\* -------------------------------------------------------------------- claims
\* A step that processes an instruction `op` (the clock step leaves `last`
\* alone and moves the slot).
CallStep(op) == slot' = slot /\ last'.op = op

\* The hashes carried by the elements of an attestation set.
ElementHashes(att) ==
    {att.elements[i].transfer_spec_hash : i \in 1..Len(att.elements)}

RECURSIVE SumValues(_, _)
SumValues(elements, n) ==
    IF n = 0 THEN 0 ELSE SumValues(elements, n - 1) + elements[n].value

\* gateway_burn passes every check that precedes the replay check.
BurnReachesReplayCheck(ctx, params) ==
    LET m == params.encoded_burn_data
        d == deposits[ctx.deposit]
    IN  /\ d.initialized
        /\ ctx.delegate_account.present
              => /\ delegates[ctx.delegate_account.key].initialized
                 /\ ctx.delegate_account.key =
                      <<ctx.token_mint, delegates[ctx.delegate_account.key].depositor,
                        delegates[ctx.delegate_account.key].delegate>>
        /\ ~gateway_wallet.paused
        /\ is_token_supported(gateway_wallet, ctx.token_mint)
        /\ ctx.deposit = <<ctx.token_mint, d.depositor>>
        /\ verify_burn_signature(gateway_wallet, params.burn_signature) = "Ok"
        /\ BurnDataNew(m) = "Ok"
        /\ verify_user_signature(ctx.ix, burn_intent_message_length(m)) = "Ok"
        /\ m.version = gateway_wallet.version
        /\ m.max_block_height_hi = 0 /\ m.max_block_height >= slot
        /\ m.source_domain = gateway_wallet.local_domain
        /\ m.source_contract = WalletProgram
        /\ m.source_token = ctx.token_mint
        /\ m.source_depositor = d.depositor
        /\ validate_signer_authorization(m.source_signer, m.source_depositor,
                                         ctx.delegate_account) = "Ok"
        /\ m.max_fee_hi = 0 /\ m.max_fee >= m.fee
        /\ tok[<<WalletPDA, ctx.token_mint>>] >= m.value + m.fee
        /\ ctx.remaining_accounts = <<transfer_spec_hash(m)>>

\* gateway_mint on a well-formed set reaches the replay check of the first
\* element whose hash is used: the set is not expired and the elements before
\* it carry distinct unused hashes and positive values the custody can pay.
MintReachesReplayCheck(ctx, params) ==
    LET att == params.attestation
        es == att.elements
        k == CHOOSE i \in 1..Len(es) :
                /\ es[i].transfer_spec_hash \in usedM
                /\ \A j \in 1..(i - 1) : es[j].transfer_spec_hash \notin usedM
    IN  /\ ~gateway_minter.paused
        /\ verify_attestation_signature(gateway_minter, params.signature) = "Ok"
        /\ MintAttestationNew(att).err = "Ok"
        /\ att.version = gateway_minter.version
        /\ att.max_block_height >= slot
        /\ att.destination_caller \in {DefaultPubkey, ctx.destination_caller}
        /\ att.destination_domain = gateway_minter.local_domain
        /\ att.destination_contract = MinterProgram
        /\ Len(ctx.remaining_accounts) = att.num_attestations
        /\ att.num_attestations = Len(es) /\ att.trailing = 0
        /\ \A i \in 1..Len(es) :
              /\ ctx.remaining_accounts[i] = MintCtxOf(att).remaining_accounts[i]
              /\ es[i].destination_token \in Tokens
        /\ \A i, j \in 1..(k - 1) :
              i # j => es[i].transfer_spec_hash # es[j].transfer_spec_hash
        /\ \A i \in 1..(k - 1) : es[i].value > 0
        /\ SumValues(es, k - 1) <= tok[<<MinterPDA, "T1">>]

\* C1 (as stated): each transfer-spec hash is honored by at most one
\* successful gateway_burn and at most one successful gateway_mint, and every
\* later attempt carrying a used hash fails with TransferSpecHashAlreadyUsed
\* and moves no tokens and no balances.
C1_ReplayAlwaysReplayDetected ==
    [][ /\ CallStep("gateway_burn") =>
              /\ last'.err = "Ok" =>
                    last'.hash \notin usedW /\ usedW' = usedW \cup {last'.hash}
              /\ last'.hash \in usedW =>
                    last'.err = "TransferSpecHashAlreadyUsed" /\ UNCHANGED chain
        /\ CallStep("gateway_mint") =>
              LET hs == ElementHashes(last'.mint_params.attestation) IN
              /\ last'.err = "Ok" => hs \cap usedM = {} /\ usedM' = usedM \cup hs
              /\ hs \cap usedM # {} =>
                    last'.err = "TransferSpecHashAlreadyUsed" /\ UNCHANGED chain
      ]_vars

\* C1 (amended): a gateway_burn / gateway_mint succeeds only when every hash
\* it carries is unused (and, in a set, distinct) and it records them as
\* used; every later attempt carrying a used hash fails and changes no
\* account; the failure is TransferSpecHashAlreadyUsed whenever the attempt
\* passes the checks that precede the replay check.
C1_ReplayNeverHonored ==
    [][ /\ CallStep("gateway_burn") =>
              /\ last'.err = "Ok" =>
                    last'.hash \notin usedW /\ usedW' = usedW \cup {last'.hash}
              /\ last'.hash \in usedW =>
                    /\ last'.err # "Ok"
                    /\ UNCHANGED chain
                    /\ BurnReachesReplayCheck(last'.ctx, last'.params)
                          => last'.err = "TransferSpecHashAlreadyUsed"
        /\ CallStep("gateway_mint") =>
              LET att == last'.mint_params.attestation
                  hs == ElementHashes(att)
              IN
              /\ last'.err = "Ok" =>
                    /\ hs \cap usedM = {}
                    /\ Cardinality(hs) = Len(att.elements)
                    /\ usedM' = usedM \cup hs
              /\ hs \cap usedM # {} =>
                    /\ last'.err # "Ok"
                    /\ UNCHANGED chain
                    /\ MintReachesReplayCheck(last'.mint_ctx, last'.mint_params)
                          => last'.err = "TransferSpecHashAlreadyUsed"
      ]_vars

\* C1 witness: a burn whose hash was already used reached the replay check
\* and was refused there.
C1_Witness ==
    /\ last.op = "gateway_burn"
    /\ last.err = "TransferSpecHashAlreadyUsed"
    /\ last.hash \in usedW

C3_RegistryOnlyGrows ==
    [][usedW \subseteq usedW' /\ usedM \subseteq usedM']_vars

\* C3 witness: both registries hold several hashes and another instruction
\* has run since without removing any.
C3_Witness ==
    /\ Cardinality(usedW) > 1
    /\ Cardinality(usedM) > 1
    /\ last.op \notin {"gateway_burn", "gateway_mint"}

\* The supplied Delegate record authorizes the signer of burn m.
DelegateRecordAuthorizes(ctx, m) ==
    LET rec == delegates[ctx.delegate_account.key] IN
    /\ ctx.delegate_account.present
    /\ rec.initialized
    /\ rec.token = ctx.token_mint
    /\ rec.depositor = m.source_depositor
    /\ rec.delegate = m.source_signer
    /\ rec.status \in {"Authorized", "Revoked"}

\* C4: a burn passes authorization only if its signer is the depositor, or a
\* Delegate record for the burn's token is supplied whose depositor and
\* delegate equal the burn's depositor and signer and whose status is
\* Authorized or Revoked; any other burn is rejected and changes no state.
C4_BurnAuthorization ==
    [][ CallStep("gateway_burn") =>
          LET m == last'.params.encoded_burn_data
              authorized == \/ m.source_signer = m.source_depositor
                            \/ DelegateRecordAuthorizes(last'.ctx, m)
          IN  /\ last'.err = "Ok" => authorized
              /\ ~authorized => last'.err # "Ok" /\ UNCHANGED chain
      ]_vars

\* C4 witness: a burn signed by a delegate was honored on the strength of an
\* Authorized record.
C4_Witness ==
    /\ last.op = "gateway_burn"
    /\ last.err = "Ok"
    /\ last.params.encoded_burn_data.source_signer
          # last.params.encoded_burn_data.source_depositor
    /\ delegates[last.ctx.delegate_account.key].status = "Authorized"

\* C5 (as stated): a Delegate record's status only advances
\* Unauthorized -> Authorized -> Revoked; a Revoked record never becomes
\* Authorized again.
C5_StatusOnlyAdvances ==
    [][ \A k \in DelegateKeys :
          LET before == delegates[k].status
              after == delegates'[k].status
          IN  \/ after = before
              \/ before = "Unauthorized" /\ after = "Authorized"
              \/ before = "Authorized" /\ after = "Revoked"
      ]_vars

\* C5 (amended): a status changes only by add_delegate, which sets
\* Authorized whatever the status was (a Revoked record included), and by
\* remove_delegate, which moves Authorized to Revoked; no status returns to
\* Unauthorized.
C5_StatusTransitions ==
    [][ \A k \in DelegateKeys :
          LET before == delegates[k].status
              after == delegates'[k].status
              called(op) == /\ CallStep(op)
                            /\ last'.err = "Ok"
                            /\ k = <<last'.token, last'.depositor, last'.delegate>>
          IN  /\ after # before =>
                    \/ after = "Authorized" /\ called("add_delegate")
                    \/ before = "Authorized" /\ after = "Revoked"
                          /\ called("remove_delegate")
              /\ called("add_delegate") => after = "Authorized"
              /\ called("remove_delegate") =>
                    after = (IF before = "Authorized" THEN "Revoked" ELSE before)
      ]_vars

\* C5 witness: add_delegate was called on a Revoked record and the record is
\* Authorized again.
C5_Witness ==
    /\ last.op = "add_delegate"
    /\ last.err = "Ok"
    /\ last.status_before = "Revoked"
    /\ delegates[<<last.token, last.depositor, last.delegate>>].status = "Authorized"

\* C6: a burn signed by a delegate whose matching record is Revoked passes
\* authorization exactly like one whose record is Authorized: with every
\* other check passed and the hash unused, it is honored.
C6_RevokedStillAuthorizes ==
    [][ CallStep("gateway_burn") =>
          LET ctx == last'.ctx
              m == last'.params.encoded_burn_data
              rec == delegates[ctx.delegate_account.key]
          IN  /\ m.source_signer # m.source_depositor
              /\ ctx.delegate_account.present
              /\ rec.initialized
              /\ rec.token = ctx.token_mint
              /\ rec.depositor = m.source_depositor
              /\ rec.delegate = m.source_signer
              /\ rec.status \in {"Authorized", "Revoked"}
              => /\ validate_signer_authorization(m.source_signer, m.source_depositor,
                                                  ctx.delegate_account) = "Ok"
                 /\ last'.err \notin {"InvalidDelegateAccount", "DelegateDepositorMismatch",
                                      "DelegateSignerMismatch",
                                      "DelegateSignerNotAuthorized"}
                 /\ (deposits[ctx.deposit].initialized
                       /\ tok[<<WalletPDA, ctx.token_mint>>] >= m.value + m.fee
                       /\ m.max_block_height >= slot
                       /\ last'.hash \notin usedW) => last'.err = "Ok"
      ]_vars

\* C6 witness: a burn signed by a delegate was honored while the delegate's
\* record was Revoked.
C6_Witness ==
    /\ last.op = "gateway_burn"
    /\ last.err = "Ok"
    /\ last.params.encoded_burn_data.source_signer = "G"
    /\ delegates[last.ctx.delegate_account.key].status = "Revoked"

\* C7: a burn drawing v = value + fee > 0 on a deposit holding (a, w) takes
\* from_available = min(v, a) and from_withdrawing = min(v - from_available, w)
\* and leaves (a - from_available, w - from_withdrawing).
C7_ReduceBalanceOrder ==
    [][ CallStep("gateway_burn") /\ last'.err = "Ok" =>
          LET k == last'.ctx.deposit
              m == last'.params.encoded_burn_data
              v == m.value + m.fee
              a == deposits[k].available_amount
              w == deposits[k].withdrawing_amount
              fa == Min(v, a)
              fw == Min(v - fa, w)
          IN  /\ v > 0
              /\ last'.from_available = fa
              /\ last'.from_withdrawing = fw
              /\ deposits'[k].available_amount = a - fa
              /\ deposits'[k].withdrawing_amount = w - fw
      ]_vars

\* C7 witness: a burn emptied the available balance and took the rest from a
\* pending withdrawal.
C7_Witness ==
    /\ last.op = "gateway_burn"
    /\ last.err = "Ok"
    /\ last.from_available > 0
    /\ last.from_withdrawing > 0
    /\ last.before.available_amount = last.from_available
    /\ deposits[last.ctx.deposit].available_amount = 0

\* C8: when value + fee exceeds available + withdrawing while the custody
\* holds at least value + fee, an otherwise valid burn does not fail: both
\* balances become zero, the hash is marked used, only the deducted amount
\* leaves the custody and an InsufficientBalance event is emitted.
C8_PartialBurnSucceeds ==
    [][ CallStep("gateway_burn") =>
          LET ctx == last'.ctx
              k == ctx.deposit
              m == last'.params.encoded_burn_data
              a == deposits[k].available_amount
              w == deposits[k].withdrawing_amount
              custody == <<WalletPDA, ctx.token_mint>>
              fee_account == <<gateway_wallet.fee_recipient, ctx.token_mint>>
          IN  /\ BurnReachesReplayCheck(ctx, last'.params)
              /\ last'.hash \notin usedW
              /\ m.value + m.fee > a + w
              => /\ last'.err = "Ok"
                 /\ deposits'[k].available_amount = 0
                 /\ deposits'[k].withdrawing_amount = 0
                 /\ last'.hash \in usedW'
                 /\ Contains(last'.events, "InsufficientBalance")
                 /\ last'.from_available = a /\ last'.from_withdrawing = w
                 /\ last'.fee_charged + last'.burn_amount = a + w
                 /\ tok'[custody] = tok[custody] - (a + w)
                 /\ tok'[fee_account] = tok[fee_account] + last'.fee_charged
                 /\ \A x \in TokenAccounts \ {custody, fee_account} : tok'[x] = tok[x]
      ]_vars

\* C8 witness: a burn asked for more than the deposit held, took what was
\* there and announced the shortfall.
C8_Witness ==
    /\ last.op = "gateway_burn"
    /\ last.err = "Ok"
    /\ Contains(last.events, "InsufficientBalance")
    /\ last.before.available_amount + last.before.withdrawing_amount > 0
    /\ last.from_available + last.from_withdrawing
          < last.params.encoded_burn_data.value + last.params.encoded_burn_data.fee
    /\ last.hash \in usedW

\* C9: initiate_withdrawal at slot h with delay d sets withdrawal_block to
\* h + d, and only initiate_withdrawal and a completed withdraw change it;
\* withdraw of a pending withdrawal fails with WithdrawalDelayNotElapsed and
\* changes nothing below that height, and succeeds at or above it.
C9_WithdrawalDelay ==
    [][ \A k \in DepositKeys :
          LET d == deposits[k]
              on_k(op) == CallStep(op) /\ k = <<last'.token, last'.depositor>>
          IN  /\ on_k("initiate_withdrawal") /\ last'.err = "Ok" =>
                    deposits'[k].withdrawal_block = slot + gateway_wallet.withdrawal_delay
              /\ ~on_k("initiate_withdrawal") /\ ~on_k("withdraw") =>
                    deposits'[k].withdrawal_block = d.withdrawal_block
              /\ on_k("withdraw") /\ d.initialized /\ d.withdrawing_amount > 0
                    /\ ~gateway_wallet.paused =>
                    IF slot < d.withdrawal_block
                    THEN last'.err = "WithdrawalDelayNotElapsed" /\ UNCHANGED chain
                    ELSE /\ last'.err = "Ok"
                         /\ deposits'[k].withdrawing_amount = 0
                         /\ tok'[<<k[2], k[1]>>] = tok[<<k[2], k[1]>>] + d.withdrawing_amount
      ]_vars

\* C9 witness: a withdraw succeeded at exactly the height the initiation set,
\* later than the slot the program started at.
C9_Witness ==
    /\ last.op = "withdraw"
    /\ last.err = "Ok"
    /\ last.before.withdrawal_block = slot
    /\ slot >= WithdrawalDelay
    /\ last.before.withdrawing_amount > 0

\* C10: initiate_withdrawal while a withdrawal is pending adds the amount to
\* the withdrawing balance and overwrites withdrawal_block with the current
\* slot plus the delay: one timer governs the combined amount, which a
\* withdraw pays out whole and not before that height.
C10_SecondInitiationRestartsTimer ==
    [][ \A k \in DepositKeys :
          LET d == deposits[k]
              on_k(op) == /\ CallStep(op) /\ last'.err = "Ok"
                          /\ k = <<last'.token, last'.depositor>>
          IN  /\ on_k("initiate_withdrawal") /\ d.withdrawing_amount > 0 =>
                    /\ deposits'[k].withdrawing_amount
                          = d.withdrawing_amount + last'.amount
                    /\ deposits'[k].available_amount
                          = d.available_amount - last'.amount
                    /\ deposits'[k].withdrawal_block
                          = slot + gateway_wallet.withdrawal_delay
              /\ on_k("withdraw") =>
                    /\ slot >= d.withdrawal_block
                    /\ tok'[<<k[2], k[1]>>] = tok[<<k[2], k[1]>>] + d.withdrawing_amount
                    /\ deposits'[k].withdrawing_amount = 0
      ]_vars

\* C10 witness: a second initiation found a withdrawal pending and moved its
\* block height forward.
C10_Witness ==
    /\ last.op = "initiate_withdrawal"
    /\ last.err = "Ok"
    /\ last.before.withdrawing_amount > 0
    /\ last.before.withdrawal_block
          < deposits[<<last.token, last.depositor>>].withdrawal_block
    /\ deposits[<<last.token, last.depositor>>].withdrawing_amount
          = last.before.withdrawing_amount + last.amount

\* C11: withdraw on an existing deposit record fails with
\* NoWithdrawalInProgress and changes nothing when withdrawing_amount is 0;
\* a successful withdraw moves exactly the whole withdrawing_amount from the
\* custody token account to the depositor's token account, sets
\* withdrawing_amount and withdrawal_block to 0 and leaves available_amount
\* and every other record unchanged.
C11_WithdrawCompletes ==
    [][ CallStep("withdraw") =>
          LET k == <<last'.token, last'.depositor>>
              d == deposits[k]
              custody == <<WalletPDA, last'.token>>
              user == <<last'.depositor, last'.token>>
          IN  /\ d.initialized /\ ~gateway_wallet.paused
                    /\ is_token_supported(gateway_wallet, last'.token)
                    /\ d.withdrawing_amount = 0 =>
                    last'.err = "NoWithdrawalInProgress" /\ UNCHANGED chain
              /\ last'.err = "Ok" =>
                    /\ d.withdrawing_amount > 0
                    /\ tok' = [tok EXCEPT ![custody] = @ - d.withdrawing_amount,
                                          ![user] = @ + d.withdrawing_amount]
                    /\ deposits' = [deposits EXCEPT ![k] =
                                      [d EXCEPT !.withdrawing_amount = 0,
                                                !.withdrawal_block = 0]]
                    /\ deposits'[k].available_amount = d.available_amount
      ]_vars

\* C11 witness: a withdraw paid out a pending amount while the record also
\* held an available balance and a non-zero block height.
C11_Witness ==
    /\ last.op = "withdraw"
    /\ last.err = "Ok"
    /\ last.before.withdrawing_amount > 0
    /\ last.before.available_amount > 0
    /\ last.before.withdrawal_block > 0
    /\ deposits[<<last.token, last.depositor>>].withdrawal_block = 0
    /\ deposits[<<last.token, last.depositor>>].available_amount
          = last.before.available_amount

\* C12: initiate_withdrawal(amount) succeeds exactly when 0 < amount <=
\* available_amount (on an existing record of a supported token, program not
\* paused); amount 0 fails with InvalidWithdrawalAmount and an amount above
\* the available balance with InsufficientDepositBalance, both leaving every
\* account unchanged; a success moves exactly amount from available_amount
\* to withdrawing_amount, so their sum is the same before and after.
C12_InitiateWithdrawalMoves ==
    [][ CallStep("initiate_withdrawal") =>
          LET k == <<last'.token, last'.depositor>>
              d == deposits[k]
              amount == last'.amount
              callable == /\ d.initialized /\ ~gateway_wallet.paused
                          /\ is_token_supported(gateway_wallet, last'.token)
          IN  /\ last'.err = "Ok" <=>
                    callable /\ 0 < amount /\ amount <= d.available_amount
              /\ amount = 0 \/ amount > d.available_amount =>
                    /\ UNCHANGED chain
                    /\ callable =>
                          last'.err = IF amount = 0 THEN "InvalidWithdrawalAmount"
                                      ELSE "InsufficientDepositBalance"
              /\ last'.err = "Ok" =>
                    /\ deposits'[k].available_amount = d.available_amount - amount
                    /\ deposits'[k].withdrawing_amount = d.withdrawing_amount + amount
                    /\ deposits'[k].available_amount + deposits'[k].withdrawing_amount
                          = d.available_amount + d.withdrawing_amount
                    /\ \A j \in DepositKeys \ {k} : deposits'[j] = deposits[j]
                    /\ tok' = tok
      ]_vars

\* C12 witness: an initiation asked for more than the available balance of a
\* record that holds a pending withdrawal, and was refused.
C12_Witness ==
    /\ last.op = "initiate_withdrawal"
    /\ last.err = "InsufficientDepositBalance"
    /\ last.amount > last.before.available_amount
    /\ last.before.withdrawing_amount > 0
    /\ deposits[<<last.token, last.depositor>>] = last.before

\* C13: in every reachable state of every Deposit record, withdrawal_block is
\* 0 exactly when no withdrawal is pending: withdrawing_amount = 0 implies
\* withdrawal_block = 0, and withdrawing_amount > 0 implies withdrawal_block
\* is non-zero.
C13_BlockZeroIffNonePending ==
    \A k \in DepositKeys :
        /\ deposits[k].withdrawing_amount = 0 => deposits[k].withdrawal_block = 0
        /\ deposits[k].withdrawing_amount > 0 => deposits[k].withdrawal_block # 0

\* C14: deposit_for with amount 0 fails with InvalidDepositAmount and changes
\* nothing, not even creating the record; a successful deposit_for has
\* amount > 0, increases the target record's available_amount by exactly
\* amount (creating the record for that token and depositor on the first
\* deposit), moves amount tokens from the owner to the custody account and
\* leaves withdrawing_amount, withdrawal_block and every other record
\* unchanged.
C14_DepositAddsToAvailable ==
    [][ CallStep("deposit_for") =>
          LET k == <<last'.token, last'.depositor>>
              d == deposits[k]
              amount == last'.amount
              from == <<last'.signer, last'.token>>
              custody == <<WalletPDA, last'.token>>
              callable == /\ ~gateway_wallet.paused
                          /\ is_token_supported(gateway_wallet, last'.token)
                          /\ last'.depositor # DefaultPubkey
                          /\ ~is_account_denylisted(last'.signer)
                          /\ ~is_account_denylisted(last'.depositor)
          IN  /\ amount = 0 =>
                    /\ UNCHANGED chain
                    /\ callable => last'.err = "InvalidDepositAmount"
              /\ callable /\ amount > 0 /\ tok[from] >= amount => last'.err = "Ok"
              /\ last'.err = "Ok" =>
                    /\ amount > 0
                    /\ deposits' = [deposits EXCEPT ![k] =
                          [d EXCEPT !.initialized = TRUE,
                                    !.depositor = last'.depositor,
                                    !.token_mint = last'.token,
                                    !.available_amount = @ + amount]]
                    /\ deposits'[k].withdrawing_amount = d.withdrawing_amount
                    /\ deposits'[k].withdrawal_block = d.withdrawal_block
                    /\ tok' = [tok EXCEPT ![from] = @ - amount, ![custody] = @ + amount]
      ]_vars

\* C14 witness: a deposit was added to a record that holds a pending
\* withdrawal, whose amount and block height are still in place.
C14_Witness ==
    /\ last.op = "deposit_for"
    /\ last.err = "Ok"
    /\ last.amount > 0
    /\ last.before.withdrawing_amount > 0
    /\ LET d == deposits[<<last.token, last.depositor>>]
       IN  /\ d.available_amount = last.before.available_amount + last.amount
           /\ d.withdrawing_amount = last.before.withdrawing_amount
           /\ d.withdrawal_block = last.before.withdrawal_block

\* C15: two operations that target different Deposit records can be run in
\* either order with the same result. Stated for the record of A and the
\* record of B under the same token: a call on B's record (deposit_for,
\* initiate_withdrawal, withdraw) does not change whether a gateway_burn for
\* A succeeds, with which error it fails, or what it does to A's record; and
\* a gateway_burn for A does not change the outcome of a withdraw by B.
C15_DifferentRecordsCommute ==
    [][ /\ slot' = slot /\ last'.op \in {"deposit_for", "initiate_withdrawal", "withdraw"}
           /\ last'.depositor = "B" =>
              \A c \in OrderBurns :
                  /\ GatewayBurnResult(c.ctx, c.params).err
                        = (GatewayBurnResult(c.ctx, c.params).err)'
                  /\ GatewayBurnResult(c.ctx, c.params).deposits[c.ctx.deposit]
                        = (GatewayBurnResult(c.ctx, c.params).deposits[c.ctx.deposit])'
        /\ CallStep("gateway_burn") /\ last'.ctx.deposit = <<"T1", "A">> =>
              /\ WithdrawResult("B", "T1").err = (WithdrawResult("B", "T1").err)'
              /\ WithdrawResult("B", "T1").deposits[<<"T1", "B">>]
                    = (WithdrawResult("B", "T1").deposits[<<"T1", "B">>])'
      ]_vars

\* C16: a burn intent or an attestation set is accepted only while its
\* max_block_height is at or above the current slot; presented at a higher
\* slot, a message that passes the checks made before the expiry check is
\* rejected with BurnIntentExpired, respectively AttestationExpired, and
\* nothing changes. The slot never decreases, so a message once rejected as
\* expired is never honored by a later call.
C16_ExpiredNeverHonored ==
    [][ /\ slot' >= slot
        /\ CallStep("gateway_burn") =>
              LET ctx == last'.ctx
                  params == last'.params
                  m == params.encoded_burn_data
                  d == deposits[ctx.deposit]
                  reaches ==
                      /\ d.initialized /\ ~gateway_wallet.paused
                      /\ ctx.delegate_account.present
                            => /\ delegates[ctx.delegate_account.key].initialized
                               /\ ctx.delegate_account.key =
                                    <<ctx.token_mint,
                                      delegates[ctx.delegate_account.key].depositor,
                                      delegates[ctx.delegate_account.key].delegate>>
                      /\ is_token_supported(gateway_wallet, ctx.token_mint)
                      /\ ctx.deposit = <<ctx.token_mint, d.depositor>>
                      /\ verify_burn_signature(gateway_wallet, params.burn_signature) = "Ok"
                      /\ BurnDataNew(m) = "Ok"
                      /\ verify_user_signature(ctx.ix, burn_intent_message_length(m)) = "Ok"
                      /\ m.version = gateway_wallet.version
                      /\ m.max_block_height_hi = 0
              IN  /\ last'.err = "Ok" => m.max_block_height >= slot
                  /\ m.max_block_height < slot =>
                        /\ last'.err # "Ok" /\ UNCHANGED chain
                        /\ reaches => last'.err = "BurnIntentExpired"
        /\ CallStep("gateway_mint") =>
              LET params == last'.mint_params
                  att == params.attestation
                  reaches ==
                      /\ ~gateway_minter.paused
                      /\ verify_attestation_signature(gateway_minter, params.signature) = "Ok"
                      /\ MintAttestationNew(att).err = "Ok"
                      /\ att.version = gateway_minter.version
              IN  /\ last'.err = "Ok" => att.max_block_height >= slot
                  /\ att.max_block_height < slot =>
                        /\ last'.err # "Ok" /\ UNCHANGED chain
                        /\ reaches => last'.err = "AttestationExpired"
      ]_vars

\* C16 witness: a burn intent whose max_block_height lies below the current
\* slot was rejected as expired on a record that could have paid it.
C16_Witness ==
    /\ last.op = "gateway_burn"
    /\ last.err = "BurnIntentExpired"
    /\ last.params.encoded_burn_data.max_block_height < slot
    /\ last.before.available_amount >= last.params.encoded_burn_data.value

\* C17: every successful gateway_burn carries an intent whose version is the
\* wallet's version, whose source_domain is the wallet's local domain, whose
\* source_contract is this program, whose source_token is the supplied token
\* mint, whose source_depositor is the depositor of the Deposit record being
\* debited, and whose fee is at most max_fee; an intent that violates any one
\* of these fails and no account changes.
C17_BurnBindings ==
    [][ CallStep("gateway_burn") =>
          LET ctx == last'.ctx
              m == last'.params.encoded_burn_data
              d == deposits[ctx.deposit]
              bound == /\ m.version = gateway_wallet.version
                       /\ m.source_domain = gateway_wallet.local_domain
                       /\ m.source_contract = WalletProgram
                       /\ m.source_token = ctx.token_mint
                       /\ m.source_depositor = d.depositor
                       /\ m.fee <= m.max_fee
          IN  /\ last'.err = "Ok" => bound
              /\ ~bound => last'.err # "Ok" /\ UNCHANGED chain
      ]_vars

\* C17 witness: an intent naming another source token than the mint it was
\* presented with was refused, although the record could have paid it.
C17_Witness ==
    /\ last.op = "gateway_burn"
    /\ last.err = "SourceTokenMismatch"
    /\ last.params.encoded_burn_data.source_token # last.ctx.token_mint
    /\ last.before.available_amount >= last.params.encoded_burn_data.value
    /\ deposits[last.ctx.deposit] = last.before

\* What the first n elements pay into token account a, less what they take
\* out of it as the custody account of their destination token.
RECURSIVE NetMinted(_, _, _)
NetMinted(elements, n, a) ==
    IF n = 0 THEN 0
    ELSE NetMinted(elements, n - 1, a)
            + (IF elements[n].destination_recipient = a THEN elements[n].value ELSE 0)
            - (IF <<MinterPDA, elements[n].destination_token>> = a
               THEN elements[n].value ELSE 0)

C19_DestinationCaller ==
    [][ CallStep("gateway_mint") =>
          LET ctx == last'.mint_ctx
              params == last'.mint_params
              att == params.attestation
              reaches ==
                  /\ ~gateway_minter.paused
                  /\ verify_attestation_signature(gateway_minter, params.signature) = "Ok"
                  /\ MintAttestationNew(att).err = "Ok"
                  /\ att.version = gateway_minter.version
                  /\ att.max_block_height >= slot
          IN  /\ att.destination_caller = DefaultPubkey =>
                    /\ last'.err # "DestinationCallerMismatch"
                    /\ \A signer \in Keys :
                          GatewayMintResult([ctx EXCEPT !.destination_caller = signer],
                                            params)
                             = GatewayMintResult(ctx, params)
              /\ att.destination_caller # DefaultPubkey =>
                    /\ last'.err = "Ok" => ctx.destination_caller = att.destination_caller
                    /\ ctx.destination_caller # att.destination_caller =>
                          /\ last'.err # "Ok" /\ UNCHANGED chain
                          /\ reaches => last'.err = "DestinationCallerMismatch"
                    /\ ctx.destination_caller = att.destination_caller =>
                          last'.err # "DestinationCallerMismatch"
      ]_vars

\* C19 witness: a set with the zero address as its destination caller was
\* minted when B presented it.
C19_Witness ==
    /\ last.op = "gateway_mint"
    /\ last.err = "Ok"
    /\ last.mint_params.attestation.destination_caller = DefaultPubkey
    /\ last.mint_ctx.destination_caller = "B"
    /\ "h1" \in usedM

\* C20: gateway_burn passes the check of the user's signature only if the
\* instruction right before it is an Ed25519 instruction whose data is the
\* 16-byte header with num_signatures 1, padding 0, signature offset 6 + 8,
\* public key offset 6 + 368, message offset 6 + 72, message size equal to
\* the burn data length minus 72, and all three instruction indexes equal to
\* the index of the gateway_burn instruction. A burn that reaches this check
\* after an Ed25519 instruction whose header differs in any one of these
\* fields or in its length fails with InvalidEd25519InstructionData, one
\* that is preceded by no instruction or by another program's fails with
\* PreviousInstructionNotEd25519Program, and both change nothing; with
\* everything as expected the burn fails with neither error.
C20_Ed25519Descriptor ==
    [][ CallStep("gateway_burn") =>
          LET ctx == last'.ctx
              params == last'.params
              m == params.encoded_burn_data
              ix == ctx.ix
              d == deposits[ctx.deposit]
              preceded == ix.current_index > 0 /\ ix.program_id = Ed25519Program
              descriptor ==
                  /\ ix.data_len = 16
                  /\ ix.num_signatures = 1
                  /\ ix.padding = 0
                  /\ ix.signature_offset = 6 + 8
                  /\ ix.public_key_offset = 6 + 368
                  /\ ix.message_data_offset = 6 + 72
                  /\ ix.message_data_size = m.len - 72
                  /\ ix.signature_instruction_index = ix.current_index
                  /\ ix.public_key_instruction_index = ix.current_index
                  /\ ix.message_instruction_index = ix.current_index
              reaches ==
                  /\ d.initialized /\ ~gateway_wallet.paused
                  /\ ~ctx.delegate_account.present
                  /\ is_token_supported(gateway_wallet, ctx.token_mint)
                  /\ ctx.deposit = <<ctx.token_mint, d.depositor>>
                  /\ verify_burn_signature(gateway_wallet, params.burn_signature) = "Ok"
                  /\ BurnDataNew(m) = "Ok"
                  /\ m.len - 72 <= U16_MAX
              proof_errors == {"PreviousInstructionNotEd25519Program",
                               "InvalidEd25519InstructionData"}
          IN  /\ last'.err = "Ok" => preceded /\ descriptor
              /\ reaches /\ ~preceded =>
                    /\ last'.err = "PreviousInstructionNotEd25519Program"
                    /\ UNCHANGED chain
              /\ reaches /\ preceded /\ ~descriptor =>
                    /\ last'.err = "InvalidEd25519InstructionData"
                    /\ UNCHANGED chain
              /\ reaches /\ preceded /\ descriptor => last'.err \notin proof_errors
      ]_vars

\* C20 witness: a burn whose Ed25519 header differs from the expected one only
\* in the instruction index of the message was refused.
C20_Witness ==
    /\ last.op = "gateway_burn"
    /\ last.err = "InvalidEd25519InstructionData"
    /\ last.ctx.ix.message_instruction_index # last.ctx.ix.current_index
    /\ last.ctx.ix.signature_instruction_index = last.ctx.ix.current_index
    /\ last.ctx.ix.public_key_instruction_index = last.ctx.ix.current_index
    /\ last.ctx.ix.message_data_size = last.params.encoded_burn_data.len - 72
    /\ last.before.available_amount >= last.params.encoded_burn_data.value

\* A signature that recovery refuses on its shape alone: wrong length, a
\* recovery byte other than 27 and 28, or s in the high half.
SignatureMalformed(signature) ==
    \/ signature.len # SIGNATURE_LENGTH
    \/ signature.recovery_id \notin {27, 28}
    \/ signature.high_s

\* Recovery yields an identity for the signature.
SignatureStructurallyValid(signature) ==
    recover_evm_signer(32, signature).err = "Ok"

\* gateway_burn passes the account constraints of its context.
BurnAccountsValid(ctx) ==
    LET d == deposits[ctx.deposit]
    IN  /\ d.initialized /\ ~gateway_wallet.paused
        /\ ctx.delegate_account.present
              => /\ delegates[ctx.delegate_account.key].initialized
                 /\ ctx.delegate_account.key =
                      <<ctx.token_mint, delegates[ctx.delegate_account.key].depositor,
                        delegates[ctx.delegate_account.key].delegate>>
        /\ is_token_supported(gateway_wallet, ctx.token_mint)
        /\ ctx.deposit = <<ctx.token_mint, d.depositor>>

\* C21: recover_evm_signer refuses a signature whose length is not 65, whose
\* last byte is not 27 or 28, or whose s is high, whatever recovery would have
\* given for it; a gateway_burn carrying such a signature fails with
\* InvalidBurnSignerSignature, a gateway_mint with InvalidAttesterSignature,
\* and no account changes.
C21_MalformedSignatureRejected ==
    [][ /\ CallStep("gateway_burn") /\ SignatureMalformed(last'.params.burn_signature) =>
              LET s == last'.params.burn_signature
                  r == recover_evm_signer(32, s)
              IN  /\ r.err \in {"InvalidSignatureLength", "InvalidRecoveryId",
                                "InvalidSignature", "InvalidSignatureSValue"}
                  /\ \A b1, b2 \in BOOLEAN, k \in Keys \cup {BurnSignerKey, StrangerKey} :
                        recover_evm_signer(32, [s EXCEPT !.recovers = b1,
                                                         !.signed_this = b2,
                                                         !.signer = k]) = r
                  /\ last'.err # "Ok" /\ UNCHANGED chain
                  /\ BurnAccountsValid(last'.ctx) =>
                        last'.err = "InvalidBurnSignerSignature"
        /\ CallStep("gateway_mint") /\ SignatureMalformed(last'.mint_params.signature) =>
              /\ recover_evm_signer(32, last'.mint_params.signature).err # "Ok"
              /\ UNCHANGED chain
              /\ ~gateway_minter.paused => last'.err = "InvalidAttesterSignature"
      ]_vars

\* C21 witness: a burn of a payable, well-formed intent was refused because
\* the enrolled signer's signature has a high s.
C21_Witness ==
    /\ last.op = "gateway_burn"
    /\ last.err = "InvalidBurnSignerSignature"
    /\ last.params.burn_signature.high_s
    /\ last.params.burn_signature.signer = BurnSignerKey
    /\ last.params.burn_signature.recovers
    /\ BurnDataNew(last.params.encoded_burn_data) = "Ok"
    /\ last.before.available_amount >= last.params.encoded_burn_data.value

\* The identity recovered from a structurally valid signature.
RecoveredSigner(signature) == recover_evm_signer(32, signature).signer

\* The errors either flow reports for the signatures of SignatureVariants
\* that recovery refuses.
BurnMalformedErrors ==
    {verify_burn_signature(gateway_wallet, s) :
        s \in {v \in SignatureVariants(BurnSignerKey) : ~SignatureStructurallyValid(v)}}

MintMalformedErrors ==
    {verify_attestation_signature(gateway_minter, s) :
        s \in {v \in SignatureVariants(AttesterKey) : ~SignatureStructurallyValid(v)}}

\* C22 (as stated): in both flows a structurally valid signature that
\* recovers to an identity outside the enrolled set is reported with an error
\* that is none of the errors reported for a structurally invalid signature.
C22_UnauthorizedDistinctInBothFlows ==
    [][ /\ CallStep("gateway_burn") /\ BurnAccountsValid(last'.ctx)
           /\ SignatureStructurallyValid(last'.params.burn_signature)
           /\ ~is_burn_signer(gateway_wallet, RecoveredSigner(last'.params.burn_signature))
           => last'.err # "Ok" /\ last'.err \notin BurnMalformedErrors
        /\ CallStep("gateway_mint") /\ ~gateway_minter.paused
           /\ SignatureStructurallyValid(last'.mint_params.signature)
           /\ ~Contains(gateway_minter.enabled_attesters,
                        RecoveredSigner(last'.mint_params.signature))
           => last'.err # "Ok" /\ last'.err \notin MintMalformedErrors
      ]_vars

\* C22: gateway_burn reports a structurally valid signature of an unenrolled
\* signer with BurnSignerNotAuthorized and every structurally invalid one
\* with InvalidBurnSignerSignature; gateway_mint reports both with the one
\* error InvalidAttesterSignature. Neither call changes an account.
C22_UnauthorizedSignerErrors ==
    [][ /\ CallStep("gateway_burn") /\ BurnAccountsValid(last'.ctx) =>
              LET s == last'.params.burn_signature IN
              /\ ~SignatureStructurallyValid(s) =>
                    last'.err = "InvalidBurnSignerSignature" /\ UNCHANGED chain
              /\ SignatureStructurallyValid(s)
                    /\ ~is_burn_signer(gateway_wallet, RecoveredSigner(s)) =>
                    last'.err = "BurnSignerNotAuthorized" /\ UNCHANGED chain
        /\ CallStep("gateway_mint") /\ ~gateway_minter.paused =>
              LET s == last'.mint_params.signature IN
              ~SignatureStructurallyValid(s)
                 \/ ~Contains(gateway_minter.enabled_attesters, RecoveredSigner(s)) =>
                    last'.err = "InvalidAttesterSignature" /\ UNCHANGED chain
      ]_vars

\* C22 witness: a mint of a well-formed set was refused with
\* InvalidAttesterSignature although its signature is structurally valid; the
\* signer is not an enrolled attester.
C22_Witness ==
    /\ last.op = "gateway_mint"
    /\ last.err = "InvalidAttesterSignature"
    /\ SignatureStructurallyValid(last.mint_params.signature)
    /\ ~Contains(gateway_minter.enabled_attesters,
                 RecoveredSigner(last.mint_params.signature))
    /\ MintAttestationNew(last.mint_params.attestation).err = "Ok"

\* C23: in both flows the issuer signature is verified before the message is
\* decoded or any binding is compared: a call whose signature is invalid or
\* by an unenrolled signer fails with the signature error also when its
\* message is malformed or bound to another domain, and changes nothing.
C23_SignatureBeforeDecoding ==
    [][ /\ CallStep("gateway_burn") /\ BurnAccountsValid(last'.ctx) =>
              LET s == last'.params.burn_signature IN
              ~SignatureStructurallyValid(s)
                 \/ ~is_burn_signer(gateway_wallet, RecoveredSigner(s)) =>
                    /\ last'.err \in {"InvalidBurnSignerSignature",
                                      "BurnSignerNotAuthorized"}
                    /\ UNCHANGED chain
        /\ CallStep("gateway_mint") /\ ~gateway_minter.paused =>
              LET s == last'.mint_params.signature IN
              ~SignatureStructurallyValid(s)
                 \/ ~Contains(gateway_minter.enabled_attesters, RecoveredSigner(s)) =>
                    last'.err = "InvalidAttesterSignature" /\ UNCHANGED chain
      ]_vars

\* C23 witness: a mint whose set has the wrong magic and whose signature does
\* not recover was refused for the signature.
C23_Witness ==
    /\ last.op = "gateway_mint"
    /\ last.err = "InvalidAttesterSignature"
    /\ MintAttestationNew(last.mint_params.attestation).err = "AttestationMagicMismatch"
    /\ ~last.mint_params.signature.recovers

\* ----------------------------------------------------------------------- C24
\* The Ed25519 instruction is as gateway_burn expects it for the intent m.
CompanionProofValid(ix, m) ==
    /\ ix.current_index > 0
    /\ ix = [Ed25519For(m) EXCEPT !.current_index = ix.current_index,
                                  !.signature_instruction_index = ix.current_index,
                                  !.public_key_instruction_index = ix.current_index,
                                  !.message_instruction_index = ix.current_index]

\* The intent m violates a binding of the wallet, the token mint or the clock.
BindingViolated(ctx, m) ==
    \/ m.version # gateway_wallet.version
    \/ m.max_block_height_hi # 0
    \/ m.max_block_height < slot
    \/ m.source_domain # gateway_wallet.local_domain
    \/ m.source_contract # WalletProgram
    \/ m.source_token # ctx.token_mint

BindingErrors ==
    {"VersionMismatch", "BurnIntentExpired", "InvalidU64HighBytes",
     "SourceDomainMismatch", "SourceContractMismatch", "SourceTokenMismatch"}

CompanionProofErrors ==
    {"MalformedBurnData", "PreviousInstructionNotEd25519Program",
     "InvalidEd25519InstructionData"}

\* The account constraints hold, the burn signer signed and the intent decodes.
ReachesProofCheck(ctx, params) ==
    /\ BurnAccountsValid(ctx)
    /\ SignatureStructurallyValid(params.burn_signature)
    /\ is_burn_signer(gateway_wallet, RecoveredSigner(params.burn_signature))
    /\ BurnDataNew(params.encoded_burn_data) = "Ok"

\* C24 as stated: a gateway_burn whose Ed25519 instruction is not the expected
\* one and whose intent also violates a binding (version, expiry, source
\* domain, contract, token) or carries a used hash fails with the binding
\* error or TransferSpecHashAlreadyUsed, not with the error of the Ed25519
\* instruction check.
C24_BindingsBeforeCompanionProof ==
    [][ CallStep("gateway_burn") =>
          LET ctx == last'.ctx
              m == last'.params.encoded_burn_data
          IN  /\ ReachesProofCheck(ctx, last'.params)
              /\ ~CompanionProofValid(ctx.ix, m)
              /\ BindingViolated(ctx, m) \/ transfer_spec_hash(m) \in usedW
              => last'.err \in BindingErrors \cup {"TransferSpecHashAlreadyUsed"}
      ]_vars

\* C24, amended: gateway_burn checks the Ed25519 instruction right after the
\* intent is decoded and before the version, expiry and source bindings and
\* before the used-hash check.  A burn that reaches that check with an
\* instruction other than the expected one fails with the error of that check
\* and changes nothing, whether or not the intent also violates a binding or
\* carries a used hash; a binding error or TransferSpecHashAlreadyUsed is
\* reported only for a burn whose Ed25519 instruction is the expected one.
C24_CompanionProofBeforeBindings ==
    [][ CallStep("gateway_burn") =>
          LET ctx == last'.ctx
              m == last'.params.encoded_burn_data
          IN  /\ ReachesProofCheck(ctx, last'.params)
                 /\ ~CompanionProofValid(ctx.ix, m)
                 => last'.err \in CompanionProofErrors /\ UNCHANGED chain
              /\ last'.err \in BindingErrors \cup {"TransferSpecHashAlreadyUsed"}
                 => CompanionProofValid(ctx.ix, m)
              /\ ReachesProofCheck(ctx, last'.params)
                 /\ CompanionProofValid(ctx.ix, m)
                 /\ BindingViolated(ctx, m)
                 => last'.err \in BindingErrors
      ]_vars

\* C24 witness: with a hash recorded as used, an expired intent presented
\* after another program's instruction was refused for the instruction.
C24_Witness ==
    /\ last.op = "gateway_burn"
    /\ ReachesProofCheck(last.ctx, last.params)
    /\ ~CompanionProofValid(last.ctx.ix, last.params.encoded_burn_data)
    /\ last.params.encoded_burn_data.max_block_height < slot
    /\ usedW # {}
    /\ last.err = "PreviousInstructionNotEd25519Program"

\* ----------------------------------------------------------------------- C25
\* The element the accessors of self expose, field by field.
ExposedElement(self) ==
    [destination_token |-> Accessor(self, "destination_token").value,
     destination_recipient |-> Accessor(self, "destination_recipient").value,
     value |-> Accessor(self, "value").value,
     transfer_spec_hash |-> Accessor(self, "transfer_spec_hash").value,
     hook_data |-> Accessor(self, "hook_data").value]

ElementAccessors ==
    {"destination_token", "destination_recipient", "value", "transfer_spec_hash",
     "hook_data_length", "hook_data"}

ExposedOk(self) == \A name \in ElementAccessors : Accessor(self, name).err = "Ok"

\* C25: on a well-formed attestation set of n >= 1 elements every next()
\* succeeds; the k-th call returns true for k <= n and then the accessors
\* expose the k-th encoded element; every later call returns false and leaves
\* the object as it was, so the accessors keep exposing the n-th element.  No
\* call lowers the index or the offset.
C25_NextVisitsEachElementOnce ==
    [][ /\ CallStep("attestation_next")
        /\ last'.input.kind = "well-formed"
        => LET s == last'.input.source
               n == Len(s.elements)
               k == last'.calls
           IN  /\ n >= 1 /\ k = last.calls + 1
               /\ last'.err = "Ok"
               /\ last'.more = (k <= n)
               /\ last'.trues = Min(k, n)
               /\ k <= n => /\ last'.self.index = k
                            /\ ExposedOk(last'.self)
                            /\ ExposedElement(last'.self) = s.elements[k]
               /\ k > n => /\ last'.self = last.self
                           /\ ExposedElement(last'.self) = s.elements[n]
               /\ last'.self.index >= last.self.index
               /\ last'.self.offset >= last.self.offset
      ]_vars

\* C25 witness: on a set of two elements, the second with hook data, the
\* fourth next() returned false with the second element still exposed.
C25_Witness ==
    /\ last.op = "attestation_next"
    /\ last.input.kind = "well-formed"
    /\ Len(last.input.source.elements) = 2
    /\ last.input.source.elements[2].hook_data # <<>>
    /\ last.calls = 4 /\ last.trues = 2 /\ ~last.more
    /\ ExposedElement(last.self) = last.input.source.elements[2]

\* ----------------------------------------------------------------------- C26
DecodeErrors ==
    {"AttestationTooShort", "AttestationTooLong", "AttestationMagicMismatch",
     "EmptyAttestationSet", "MalformedMintAttestation"}

\* C26 as stated: whatever the buffer (an encoding, a truncated one, one with
\* a hook data length far beyond the buffer) and whatever the calls of new(),
\* next() and the accessors made on it, every call returns a value or one of
\* the decode errors: none reads outside the buffer, none panics.
C26_DecodingNeverPanics ==
    last.op \in DecoderOps => last.err \in DecodeErrors \cup {"Ok"}

\* ----------------------------------------------------------------------- C27
\* C27: on a well-formed set of n elements followed by one more byte, the
\* next() calls before the n-th succeed and return true, the n-th fails with
\* AttestationTooLong, and no sequence of calls sees next() return true n
\* times.
C27_TrailingByteRejected ==
    [][ /\ CallStep("attestation_next")
        /\ last'.input.kind = "trailing"
        => LET n == Len(last'.input.source.elements)
               k == last'.calls
           IN  /\ k < n => last'.err = "Ok" /\ last'.more
               /\ k = n => last'.err = "AttestationTooLong" /\ ~last'.more
               /\ last'.trues < n
      ]_vars

\* C27 witness: two elements and a trailing byte; the first next() returned
\* true, the second failed with AttestationTooLong.
C27_Witness ==
    /\ last.op = "attestation_next"
    /\ last.input.kind = "trailing"
    /\ Len(last.input.message_bytes)
          = Len(encode_attestation(last.input.source)) + 1
    /\ Len(last.input.source.elements) = 2
    /\ last.calls = 2 /\ last.trues = 1
    /\ last.err = "AttestationTooLong"

\* ----------------------------------------------------------------------- C28
\* C28: on a set that holds n elements and declares n + 1, the first n next()
\* calls return true and expose the elements present, and the next one fails
\* with AttestationTooShort.  gateway_mint of a set that declares more
\* elements than it holds fails and changes nothing: with
\* RemainingAccountsLengthMismatch when the accounts passed are not three
\* per declared element, with AttestationTooShort otherwise.
C28_OverdeclaredCountRejected ==
    [][ /\ CallStep("attestation_next") /\ last'.input.kind = "overdeclared"
           => LET s == last'.input.source
                  n == Len(s.elements)
                  k == last'.calls
              IN  /\ Accessor(last'.self, "num_attestations").value = n + 1
                  /\ k <= n => /\ last'.err = "Ok" /\ last'.more
                               /\ ExposedElement(last'.self) = s.elements[k]
                  /\ k = n + 1 => last'.err = "AttestationTooShort" /\ ~last'.more
        /\ CallStep("gateway_mint")
           => LET att == last'.mint_params.attestation
                  accounts == last'.mint_ctx.remaining_accounts
              IN  att.num_attestations > Len(att.elements)
                  => /\ UNCHANGED chain
                     /\ last'.err =
                           IF Len(accounts) # att.num_attestations
                           THEN "RemainingAccountsLengthMismatch"
                           ELSE "AttestationTooShort"
      ]_vars

\* C28 witness: 2 declared, the bytes of 1 present; the first next() returned
\* true and the second failed.
C28_Witness ==
    /\ last.op = "attestation_next"
    /\ last.input.kind = "overdeclared"
    /\ Len(last.input.source.elements) = 1
    /\ last.self.num_elements = 2
    /\ last.calls = 2 /\ last.trues = 1
    /\ last.err = "AttestationTooShort"

\* ----------------------------------------------------------------------- C29
\* Decoding as a client reads a whole set: next() until it returns false,
\* the accessors after each true.  [err, elements]
RECURSIVE DecodeElements(_)
DecodeElements(self) ==
    LET r == attestation_next(self) IN
    IF r.err # "Ok" THEN [err |-> r.err, elements |-> <<>>]
    ELSE IF ~r.more THEN [err |-> "Ok", elements |-> <<>>]
    ELSE IF ~ExposedOk(r.self) THEN [err |-> "Panic", elements |-> <<>>]
    ELSE LET rest == DecodeElements(r.self) IN
         [err |-> rest.err, elements |-> <<ExposedElement(r.self)>> \o rest.elements]

HeaderAccessors ==
    {"magic", "num_attestations", "version", "destination_domain",
     "destination_contract", "destination_caller", "max_block_height"}

\* [err, struct, trues]: the struct read back and the number of elements seen
DecodeAttestation(message_bytes) ==
    LET new == attestation_new(message_bytes)
        self == new.self
        body == DecodeElements(self)
        none == [err |-> "Ok", struct |-> <<>>, trues |-> 0]
    IN  IF new.err # "Ok" THEN [none EXCEPT !.err = new.err]
        ELSE IF \E name \in HeaderAccessors : Accessor(self, name).err # "Ok"
        THEN [none EXCEPT !.err = "Panic"]
        ELSE IF body.err # "Ok" THEN [none EXCEPT !.err = body.err]
        ELSE [err |-> "Ok",
              struct |->
                 [version |-> Accessor(self, "version").value,
                  destination_domain |-> Accessor(self, "destination_domain").value,
                  destination_contract |-> Accessor(self, "destination_contract").value,
                  destination_caller |-> Accessor(self, "destination_caller").value,
                  max_block_height |-> Accessor(self, "max_block_height").value,
                  elements |-> body.elements],
              trues |-> Len(body.elements)]

\* C29: the bytes encode_attestation produces for a struct of 1..MaxElements
\* elements, with or without hook data, decode without error to the same
\* header fields and the same elements in the same order, with next()
\* returning true once per element.
C29_EncodeDecodeRoundTrip ==
    [][ /\ CallStep("attestation_new")
        /\ last'.input.kind = "well-formed"
        => LET s == last'.input.source
               decoded == DecodeAttestation(last'.input.message_bytes)
           IN  /\ last'.err = "Ok"
               /\ last'.self.num_elements = Len(s.elements)
               /\ decoded.err = "Ok"
               /\ decoded.struct = s
               /\ decoded.trues = Len(s.elements)
      ]_vars

\* C29 witness: a struct of two elements, only the first with hook data, was
\* encoded and its bytes read back into an equal struct.
C29_Witness ==
    /\ last.op = "attestation_new" /\ last.err = "Ok"
    /\ last.input.kind = "well-formed"
    /\ Len(last.input.source.elements) = 2
    /\ last.input.source.elements[1].hook_data # <<>>
    /\ last.input.source.elements[2].hook_data = <<>>
    /\ DecodeAttestation(last.input.message_bytes).struct = last.input.source

\* ----------------------------------------------------------------------- C30
\* What C30 lists: the prefix, both magics, the exact length, the transfer
\* spec length and a value that is not zero.
BurnDataConditions(m) ==
    /\ m.prefix = "ff000000000000000000000000000000"
    /\ m.magic = "0x070afbc2"
    /\ m.ts_magic = "0xca85def7"
    /\ m.len = 500 + m.hook_data_length
    /\ m.transfer_spec_length = 340 + m.hook_data_length
    /\ m.value # 0 \/ m.value_hi # 0

BurnDataErrors ==
    {"BurnIntentLengthMismatch", "InvalidBurnIntentMessagePrefix",
     "BurnIntentMagicMismatch", "TransferSpecMagicMismatch",
     "InvalidBurnIntentValue"}

\* C30: a gateway_burn whose accounts are valid and whose burn signature is
\* by an enrolled signer gets past BurnData::new only if the prefix, both
\* magics, the length, the transfer spec length and the value are as listed.
\* Burn data violating one of them is refused with the error of the first
\* check it fails and nothing changes; burn data meeting all of them, with a
\* value that fits 64 bits, is refused with none of these errors.
C30_BurnDataNewAcceptsOnlyWellFormed ==
    [][ /\ CallStep("gateway_burn")
        /\ BurnAccountsValid(last'.ctx)
        /\ SignatureStructurallyValid(last'.params.burn_signature)
        /\ is_burn_signer(gateway_wallet, RecoveredSigner(last'.params.burn_signature))
        => LET m == last'.params.encoded_burn_data
               expected ==
                   IF m.len < 500 THEN "BurnIntentLengthMismatch"
                   ELSE IF m.prefix # "ff000000000000000000000000000000"
                   THEN "InvalidBurnIntentMessagePrefix"
                   ELSE IF m.magic # "0x070afbc2" THEN "BurnIntentMagicMismatch"
                   ELSE IF m.ts_magic # "0xca85def7" THEN "TransferSpecMagicMismatch"
                   ELSE IF m.len # 500 + m.hook_data_length
                   THEN "BurnIntentLengthMismatch"
                   ELSE IF m.transfer_spec_length # 340 + m.hook_data_length
                   THEN "BurnIntentLengthMismatch"
                   ELSE "InvalidBurnIntentValue"
           IN  /\ last'.err \notin BurnDataErrors \cup {"InvalidU64HighBytes"}
                  => BurnDataConditions(m)
               /\ ~BurnDataConditions(m)
                  => last'.err = expected /\ UNCHANGED chain
               /\ BurnDataConditions(m) /\ m.value_hi # 0
                  => last'.err = "InvalidU64HighBytes" /\ UNCHANGED chain
               /\ BurnDataConditions(m) /\ m.value_hi = 0
                  => last'.err \notin BurnDataErrors
      ]_vars

\* C30 witness: burn data whose transfer spec length is one more than 340
\* plus its hook data length, everything else as listed, was refused.
C30_Witness ==
    /\ last.op = "gateway_burn"
    /\ BurnAccountsValid(last.ctx)
    /\ last.params.encoded_burn_data.len
          = 500 + last.params.encoded_burn_data.hook_data_length
    /\ last.params.encoded_burn_data.transfer_spec_length
          = 341 + last.params.encoded_burn_data.hook_data_length
    /\ last.params.encoded_burn_data.value > 0
    /\ last.err = "BurnIntentLengthMismatch"

\* gateway_burn reaches the read of value: accounts, burn signature and the
\* checks BurnData::new makes before it reads the value.
ReachesValueRead(ctx, params) ==
    /\ BurnAccountsValid(ctx)
    /\ SignatureStructurallyValid(params.burn_signature)
    /\ is_burn_signer(gateway_wallet, RecoveredSigner(params.burn_signature))
    /\ BurnDataConditions(params.encoded_burn_data)

\* gateway_burn reaches the read of max_block_height.
ReachesMaxBlockHeightRead(ctx, params) ==
    LET m == params.encoded_burn_data
    IN  /\ ReachesValueRead(ctx, params)
        /\ m.value_hi = 0
        /\ CompanionProofValid(ctx.ix, m)
        /\ m.version = gateway_wallet.version

\* gateway_burn reaches the read of max_fee.
ReachesMaxFeeRead(ctx, params) ==
    LET m == params.encoded_burn_data
    IN  /\ ReachesMaxBlockHeightRead(ctx, params)
        /\ m.max_block_height_hi = 0
        /\ ~BindingViolated(ctx, m)
        /\ m.source_depositor = deposits[ctx.deposit].depositor
        /\ m.source_signer = m.source_depositor

\* C31: a gateway_burn whose intent has a non-zero byte among the top 24 bytes
\* of max_block_height, max_fee or value fails and changes nothing; it fails
\* with InvalidU64HighBytes whenever the checks made before the read of that
\* field pass.
C31_HighBytesRejected ==
    [][ CallStep("gateway_burn") =>
          LET ctx == last'.ctx
              params == last'.params
              m == params.encoded_burn_data
          IN  /\ (m.max_block_height_hi # 0 \/ m.max_fee_hi # 0 \/ m.value_hi # 0)
                    => last'.err # "Ok" /\ UNCHANGED chain
              /\ \/ ReachesValueRead(ctx, params) /\ m.value_hi # 0
                 \/ ReachesMaxBlockHeightRead(ctx, params) /\ m.max_block_height_hi # 0
                 \/ ReachesMaxFeeRead(ctx, params) /\ m.max_fee_hi # 0
                 => last'.err = "InvalidU64HighBytes" ]_vars

\* A burn whose max_fee has a high byte set got as far as the read of max_fee
\* and was refused, with funds in the deposit that the low bytes would cover.
C31_Witness ==
    /\ last.op = "gateway_burn"
    /\ last.params.encoded_burn_data.max_fee_hi # 0
    /\ ReachesMaxFeeRead(last.ctx, last.params)
    /\ last.err = "InvalidU64HighBytes"
    /\ deposits[last.ctx.deposit].available_amount
          >= last.params.encoded_burn_data.value

\* The members of a role set, as a set.
Members(s) == {s[i] : i \in 1..Len(s)}

\* A role set holds at most `cap` identities, each once.
WithinCapacity(s, cap) == Len(s) <= cap /\ Cardinality(Members(s)) = Len(s)

\* What an add of key k by the owner does to a role set: nothing for a member,
\* a refusal with `full` for a new key when `cap` members are held, and
\* otherwise the key joins the set.
AddOutcome(before, after, k, cap, full) ==
    IF k \in Members(before) THEN last'.err = "Ok" /\ after = before
    ELSE IF Len(before) >= cap THEN last'.err = full /\ after = before
    ELSE last'.err = "Ok" /\ Members(after) = Members(before) \cup {k}

\* What a removal of key k by the owner does: nothing for a non-member.
RemoveOutcome(before, after, k) ==
    /\ last'.err = "Ok"
    /\ IF k \in Members(before) THEN Members(after) = Members(before) \ {k}
       ELSE after = before

\* C32: the burn-signer set and the attester set hold at most 10 distinct
\* identities each; adding a member changes nothing and succeeds, adding an
\* eleventh distinct identity fails with the limit error of the set and
\* changes nothing, removing a non-member changes nothing and succeeds.
C32_RoleSetsBounded ==
    /\ [](/\ WithinCapacity(gateway_wallet.burn_signers, 10)
          /\ WithinCapacity(gateway_minter.enabled_attesters, 10))
    /\ [][ /\ CallStep("add_burn_signer")
              /\ last'.authority = gateway_wallet.owner /\ last'.key # DefaultPubkey
              => AddOutcome(gateway_wallet.burn_signers, gateway_wallet'.burn_signers,
                            last'.key, 10, "BurnSignerLimitExceeded")
           /\ CallStep("add_attester")
              /\ last'.authority = gateway_minter.owner /\ last'.key # DefaultPubkey
              => AddOutcome(gateway_minter.enabled_attesters,
                            gateway_minter'.enabled_attesters,
                            last'.key, 10, "AttesterLimitExceeded")
           /\ CallStep("remove_burn_signer") /\ last'.authority = gateway_wallet.owner
              => RemoveOutcome(gateway_wallet.burn_signers,
                               gateway_wallet'.burn_signers, last'.key)
           /\ CallStep("remove_attester") /\ last'.authority = gateway_minter.owner
              => RemoveOutcome(gateway_minter.enabled_attesters,
                               gateway_minter'.enabled_attesters, last'.key) ]_vars

\* The owner presented an eleventh distinct burn signer and was refused, with
\* the attester set full as well.
C32_Witness ==
    /\ last.op = "add_burn_signer"
    /\ last.err = "BurnSignerLimitExceeded"
    /\ last.authority = gateway_wallet.owner
    /\ Len(last.members_before) = 10
    /\ ~Contains(last.members_before, last.key)
    /\ gateway_wallet.burn_signers = last.members_before
    /\ Len(gateway_minter.enabled_attesters) = 10

\* The sum of available and withdrawing amounts of the deposits of token t
\* held for the depositors in ks.
RECURSIVE LedgerTotal(_, _)
LedgerTotal(t, ks) ==
    IF ks = {} THEN 0
    ELSE LET k == CHOOSE x \in ks : TRUE
         IN  deposits[<<t, k>>].available_amount
               + deposits[<<t, k>>].withdrawing_amount + LedgerTotal(t, ks \ {k})

\* C33: for every token the balance of the custody account equals the sum,
\* over its depositors, of the available and the withdrawing amounts, after
\* any sequence of deposits, withdrawals and burns.
C33_CustodyEqualsLedger ==
    \A t \in Tokens : tok[<<WalletPDA, t>>] = LedgerTotal(t, Keys)

\* After a burn out of A's deposit that took part of a pending withdrawal and
\* charged a fee, with a deposit of B left in the same custody account.
C33_Witness ==
    /\ last.op = "gateway_burn" /\ last.err = "Ok"
    /\ last.fee_charged > 0 /\ last.from_withdrawing > 0
    /\ deposits[<<"T1", "B">>].available_amount > 0
    /\ tok[<<WalletPDA, "T1">>] = LedgerTotal("T1", Keys)
    /\ tok[<<WalletPDA, "T1">>] > 0

\* C34: in every successful gateway_burn, with d the amount taken out of the
\* deposit (from_available + from_withdrawing): the fee recipient receives
\* max(d - value, 0), min(d, value) is burned, the two add up to d, the fee
\* paid is at most the fee of the message, which is at most max_fee, and a
\* fee is paid only when the whole value was burned.
C34_FeeSplit ==
    [][ CallStep("gateway_burn") /\ last'.err = "Ok" =>
          LET m == last'.params.encoded_burn_data
              key == last'.ctx.deposit
              custody == <<WalletPDA, last'.ctx.token_mint>>
              fee_account == <<gateway_wallet.fee_recipient, last'.ctx.token_mint>>
              d == last'.from_available + last'.from_withdrawing
              taken == (deposits[key].available_amount + deposits[key].withdrawing_amount)
                         - (deposits'[key].available_amount
                              + deposits'[key].withdrawing_amount)
              fee_paid == tok'[fee_account] - tok[fee_account]
              burned == (tok[custody] - tok'[custody]) - fee_paid
          IN  /\ taken = d
              /\ fee_paid = IF d > m.value THEN d - m.value ELSE 0
              /\ burned = IF d < m.value THEN d ELSE m.value
              /\ fee_paid + burned = d
              /\ fee_paid <= m.fee /\ m.fee <= m.max_fee
              /\ fee_paid > 0 => burned = m.value
              /\ last'.fee_charged = fee_paid /\ last'.burn_amount = burned ]_vars

\* A successful burn whose deposit covered the value but not the fee: the
\* whole deduction was burned and no fee was paid although the message asked
\* for one.
C34_Witness ==
    /\ last.op = "gateway_burn" /\ last.err = "Ok"
    /\ last.params.encoded_burn_data.fee > 0
    /\ last.from_available + last.from_withdrawing
          = last.params.encoded_burn_data.value
    /\ last.fee_charged = 0
    /\ last.burn_amount = last.params.encoded_burn_data.value

\* A gateway_mint whose first two elements carry the same, unused hash and
\* which is sound otherwise: signature, header, expiry, caller, accounts, and
\* a first element with a positive value the custody can pay.
DuplicateHashMint(ctx, params) ==
    LET att == params.attestation
        es == att.elements
    IN  /\ ~gateway_minter.paused
        /\ params.signature = SignatureBy(AttesterKey)
        /\ Contains(gateway_minter.enabled_attesters, AttesterKey)
        /\ MintAttestationNew(att).err = "Ok"
        /\ att.version = gateway_minter.version
        /\ att.max_block_height >= slot
        /\ att.destination_caller \in {DefaultPubkey, ctx.destination_caller}
        /\ att.destination_domain = gateway_minter.local_domain
        /\ att.destination_contract = MinterProgram
        /\ att.num_attestations = Len(es) /\ att.trailing = 0
        /\ ctx.remaining_accounts = MintCtxOf(att).remaining_accounts
        /\ Len(es) >= 2
        /\ es[1].transfer_spec_hash = es[2].transfer_spec_hash
        /\ es[1].transfer_spec_hash \notin usedM
        /\ es[1].destination_token \in Tokens
        /\ es[1].value > 0
        /\ es[1].value <= tok[<<MinterPDA, es[1].destination_token>>]

\* C35: a gateway_mint whose set has two elements with the same hash fails;
\* when the set is sound otherwise the second element fails with
\* TransferSpecHashAlreadyUsed against the record the first element created in
\* the same call, and afterwards nothing was minted and the hash is not used.
C35_DuplicateHashInSetRejected ==
    [][ CallStep("gateway_mint") =>
          LET es == last'.mint_params.attestation.elements
              h == es[1].transfer_spec_hash
          IN  /\ (\E i, j \in 1..Len(es) :
                     i # j /\ es[i].transfer_spec_hash = es[j].transfer_spec_hash)
                   => last'.err # "Ok" /\ UNCHANGED chain
              /\ DuplicateHashMint(last'.mint_ctx, last'.mint_params)
                   => /\ last'.err = "TransferSpecHashAlreadyUsed"
                      /\ h \in last'.partial_usedM
                      /\ h \notin usedM'
                      /\ tok' = tok ]_vars

\* The second of two elements with one hash was refused after the first had
\* been minted inside the call; the hash is unused and the balances are those
\* from before the call.
C35_Witness ==
    /\ last.op = "gateway_mint"
    /\ last.err = "TransferSpecHashAlreadyUsed"
    /\ Len(last.mint_params.attestation.elements) = 2
    /\ last.mint_params.attestation.elements[1].transfer_spec_hash
          = last.mint_params.attestation.elements[2].transfer_spec_hash
    /\ last.mint_params.attestation.elements[1].transfer_spec_hash
          \in last.partial_usedM
    /\ last.mint_params.attestation.elements[1].transfer_spec_hash \notin usedM
    /\ last.partial_tok # tok

\* C36: a successful remove_burn_signer / remove_attester takes the identity
\* out of its set, it stays out until an add_burn_signer / add_attester names
\* it, and while it is out every gateway_burn / gateway_mint whose signature
\* recovers to it is rejected and changes nothing.
C36_RevokedIssuerRejected ==
    [][ /\ CallStep("remove_burn_signer") /\ last'.err = "Ok"
           => last'.key \notin Members(gateway_wallet'.burn_signers)
        /\ CallStep("remove_attester") /\ last'.err = "Ok"
           => last'.key \notin Members(gateway_minter'.enabled_attesters)
        /\ \A k \in Members(gateway_wallet'.burn_signers)
                      \ Members(gateway_wallet.burn_signers) :
              last'.op = "add_burn_signer" /\ last'.key = k
        /\ \A k \in Members(gateway_minter'.enabled_attesters)
                      \ Members(gateway_minter.enabled_attesters) :
              last'.op = "add_attester" /\ last'.key = k
        /\ /\ CallStep("gateway_burn")
           /\ RecoveredSigner(last'.params.burn_signature)
                 \notin Members(gateway_wallet.burn_signers)
           => /\ last'.err # "Ok" /\ UNCHANGED chain
              /\ BurnAccountsValid(last'.ctx) => last'.err = "BurnSignerNotAuthorized"
        /\ /\ CallStep("gateway_mint")
           /\ RecoveredSigner(last'.mint_params.signature)
                 \notin Members(gateway_minter.enabled_attesters)
           => /\ last'.err # "Ok" /\ UNCHANGED chain
              /\ ~gateway_minter.paused => last'.err = "InvalidAttesterSignature" ]_vars

\* After a burn countersigned by the burn signer was honoured, the signer was
\* removed, and a further burn with that signer's signature, which the
\* deposit could pay, was refused.
C36_Witness ==
    /\ last.op = "gateway_burn"
    /\ last.err = "BurnSignerNotAuthorized"
    /\ RecoveredSigner(last.params.burn_signature) = BurnSignerKey
    /\ BurnSignerKey \notin Members(gateway_wallet.burn_signers)
    /\ usedW # {}
    /\ last.hash \notin usedW
    /\ deposits[last.ctx.deposit].available_amount
          >= last.params.encoded_burn_data.value

\* C37: every Delegate record that exists has status Authorized or Revoked:
\* a record comes into existence only by a successful add_delegate for its
\* key, which stores Authorized, no step gives an existing record the status
\* Unauthorized, and no gateway_burn is refused with
\* DelegateSignerNotAuthorized.
C37_NoUnauthorizedRecord ==
    /\ [](\A k \in DelegateKeys :
             delegates[k].initialized => delegates[k].status \in {"Authorized", "Revoked"})
    /\ [][ /\ \A k \in DelegateKeys :
                /\ ~delegates[k].initialized /\ delegates'[k].initialized
                     => /\ CallStep("add_delegate") /\ last'.err = "Ok"
                        /\ k = <<last'.token, last'.depositor, last'.delegate>>
                        /\ delegates'[k].status = "Authorized"
                /\ delegates[k].initialized
                     => delegates'[k].initialized /\ delegates'[k].status # "Unauthorized"
           /\ CallStep("gateway_burn") => last'.err # "DelegateSignerNotAuthorized" ]_vars

\* A burn signed by the delegate G presented G's record, which exists and
\* was revoked, while another record is Authorized and a third does not
\* exist, and the burn was honoured.
C37_Witness ==
    /\ last.op = "gateway_burn"
    /\ last.ctx.delegate_account.present
    /\ last.params.encoded_burn_data.source_signer = "G"
    /\ delegates[last.ctx.delegate_account.key].initialized
    /\ delegates[last.ctx.delegate_account.key].delegate = "G"
    /\ delegates[last.ctx.delegate_account.key].status = "Revoked"
    /\ \E k \in DelegateKeys : delegates[k].initialized /\ delegates[k].status = "Authorized"
    /\ \E k \in DelegateKeys : ~delegates[k].initialized
    /\ last.err = "Ok"

\* The user-facing instructions of the wallet.
WalletUserOps ==
    {"gateway_burn", "deposit_for", "initiate_withdrawal", "withdraw",
     "add_delegate", "remove_delegate"}

\* The Deposit or Delegate accounts the instruction of the step reads exist.
UserAccountsExist ==
    /\ last'.op \in {"initiate_withdrawal", "withdraw"}
          => deposits[<<last'.token, last'.depositor>>].initialized
    /\ last'.op = "remove_delegate"
          => delegates[<<last'.token, last'.depositor, last'.delegate>>].initialized
    /\ last'.op = "gateway_burn"
          => /\ deposits[last'.ctx.deposit].initialized
             /\ last'.ctx.delegate_account.present
                   => delegates[last'.ctx.delegate_account.key].initialized

\* C38: while the wallet is paused gateway_burn, deposit_for,
\* initiate_withdrawal, withdraw, add_delegate and remove_delegate fail and
\* change nothing, with ProgramPaused when the accounts they read exist; while
\* the minter is paused gateway_mint fails with ProgramPaused and changes
\* nothing; remove_burn_signer by the owner and denylist by the denylister
\* succeed while the wallet is paused.
C38_PausedBlocksUserOps ==
    [][ /\ slot' = slot /\ last'.op \in WalletUserOps /\ gateway_wallet.paused
           => /\ last'.err # "Ok" /\ UNCHANGED chain
              /\ UserAccountsExist => last'.err = "ProgramPaused"
        /\ CallStep("gateway_mint") /\ gateway_minter.paused
           => last'.err = "ProgramPaused" /\ UNCHANGED chain
        /\ /\ CallStep("remove_burn_signer") /\ gateway_wallet.paused
           /\ last'.authority = gateway_wallet.owner
           => /\ last'.err = "Ok"
              /\ ~Contains(gateway_wallet'.burn_signers, last'.key)
        /\ /\ CallStep("denylist") /\ gateway_wallet.paused
           /\ last'.authority = gateway_wallet.denylister
           => last'.err = "Ok" /\ last'.key \in denylisted' ]_vars

\* A withdrawal of B that is pending and past its block was refused because
\* the wallet is paused.
C38_Witness ==
    /\ last.op = "withdraw"
    /\ last.err = "ProgramPaused"
    /\ gateway_wallet.paused
    /\ deposits[<<last.token, last.depositor>>].withdrawing_amount > 0
    /\ slot >= deposits[<<last.token, last.depositor>>].withdrawal_block

\* C39: deposit_for fails with AccountDenylisted and changes nothing when
\* the sending owner or the target depositor is denylisted, add_delegate when
\* the depositor or the delegate is; a successful undenylist takes the key
\* off the list, and with nobody involved listed the same calls succeed;
\* initiate_withdrawal, withdraw and gateway_burn never fail with
\* AccountDenylisted and serve a denylisted depositor like any other.
C39_DenylistScope ==
    [][ /\ CallStep("deposit_for") /\ ~gateway_wallet.paused =>
              IF last'.signer \in denylisted \/ last'.depositor \in denylisted
              THEN last'.err = "AccountDenylisted" /\ UNCHANGED chain
              ELSE (last'.amount > 0
                      /\ tok[<<last'.signer, last'.token>>] >= last'.amount)
                     => last'.err = "Ok"
        /\ CallStep("add_delegate") /\ ~gateway_wallet.paused =>
              IF last'.depositor \in denylisted \/ last'.delegate \in denylisted
              THEN last'.err = "AccountDenylisted" /\ UNCHANGED chain
              ELSE last'.err = "Ok"
        /\ CallStep("undenylist") /\ last'.err = "Ok"
              => last'.key \in denylisted /\ last'.key \notin denylisted'
        /\ slot' = slot
              /\ last'.op \in {"initiate_withdrawal", "withdraw", "gateway_burn"}
              => last'.err # "AccountDenylisted"
        /\ CallStep("initiate_withdrawal")
              /\ deposits[<<last'.token, last'.depositor>>].initialized
              /\ last'.amount > 0
              /\ last'.amount <= deposits[<<last'.token, last'.depositor>>].available_amount
              => last'.err = "Ok"
        /\ CallStep("withdraw")
              /\ deposits[<<last'.token, last'.depositor>>].initialized
              /\ deposits[<<last'.token, last'.depositor>>].withdrawing_amount > 0
              /\ slot >= deposits[<<last'.token, last'.depositor>>].withdrawal_block
              => last'.err = "Ok"
        /\ CallStep("gateway_burn")
              /\ deposits[last'.ctx.deposit].initialized
              /\ last'.hash \notin usedW
              /\ tok[<<WalletPDA, last'.ctx.token_mint>>]
                    >= last'.params.encoded_burn_data.value
              => last'.err = "Ok" ]_vars

\* B, who is not denylisted, deposited for the denylisted A and was refused,
\* holding the funds for it.
C39_Witness ==
    /\ last.op = "deposit_for"
    /\ last.err = "AccountDenylisted"
    /\ last.signer \notin denylisted
    /\ last.depositor \in denylisted
    /\ last.amount > 0
    /\ tok[<<last.signer, last.token>>] >= last.amount

\* C40: transfer_ownership succeeds for the current owner only, sets
\* pending_owner and leaves owner; accept_ownership succeeds only when signed
\* by pending_owner, makes it the owner and clears pending_owner, so that a
\* second accept_ownership fails; owner changes by no other step, and a later
\* transfer_ownership replaces the nominee.
C40_TwoStepOwnership ==
    [][ /\ CallStep("transfer_ownership") =>
              IF last'.authority = gateway_minter.owner
              THEN /\ last'.err = "Ok"
                   /\ gateway_minter'.pending_owner = last'.key
                   /\ gateway_minter'.owner = gateway_minter.owner
              ELSE last'.err = "InvalidAuthority" /\ UNCHANGED chain
        /\ CallStep("accept_ownership") =>
              IF last'.authority = gateway_minter.pending_owner
              THEN /\ last'.err = "Ok"
                   /\ gateway_minter'.owner = last'.authority
                   /\ gateway_minter'.pending_owner = DefaultPubkey
              ELSE last'.err = "InvalidAuthority" /\ UNCHANGED chain
        /\ CallStep("accept_ownership") /\ last.op = "accept_ownership"
              /\ last.err = "Ok"
              => last'.err = "InvalidAuthority"
        /\ gateway_minter'.owner # gateway_minter.owner
              => /\ CallStep("accept_ownership") /\ last'.err = "Ok"
                 /\ gateway_minter'.owner = gateway_minter.pending_owner
        /\ gateway_minter'.pending_owner # gateway_minter.pending_owner
              => /\ last'.op \in {"transfer_ownership", "accept_ownership"}
                 /\ last'.err = "Ok" ]_vars

\* B accepted the ownership after the owner had nominated it: B is the
\* owner, no nomination is pending, and Admin no longer is the owner.
C40_Witness ==
    /\ last.op = "accept_ownership" /\ last.err = "Ok"
    /\ last.authority = "B" /\ last.key = "B"
    /\ gateway_minter.owner = "B"
    /\ gateway_minter.pending_owner = DefaultPubkey
    /\ Contains(gateway_minter.enabled_attesters, "N1")
====
